---- MODULE Spec2Model ----
(***************************************************************************)
(* The turn state machine of the Agent class (src/src/agentic/agent.py)    *)
(* with the classifier and the requirement checker                        *)
(* (src/src/classification.py): one chat call is read -> invoke -> the    *)
(* workflow nodes, each followed by a checkpoint of the thread's state,   *)
(* -> return.  Texts are strings; their lengths, trimming, case folding   *)
(* and splitting are computed character by character.                     *)
(***************************************************************************)
EXTENDS Integers, Sequences, FiniteSets, TLC

\* ---------------------------------------------------------------- bounds
\* chat calls with valid arguments that one behaviour starts: the calls of one user
\* one after another (Spec), and the calls of two users overlapping (SpecPar)
MaxTurns == 3
MaxParTurns == 2
MaxTopicTurns == 4

\* the thread ids (user ids) and the chat calls that may be in flight at once
Users == {"alice", "bob"}
Slots == {1, 2}

\* ------------------------------------------------------------- text model
LowerAlphabet == "abcdefghijklmnopqrstuvwxyz"
UpperAlphabet == "ABCDEFGHIJKLMNOPQRSTUVWXYZ"

CharAt(s, i) == SubSeq(s, i, i)

IsSpace(c) == c \in {" ", "\t", "\n"}

\* str.strip(): leading and trailing whitespace removed
RECURSIVE LStrip(_)
LStrip(s) == IF Len(s) > 0 /\ IsSpace(CharAt(s, 1)) THEN LStrip(SubSeq(s, 2, Len(s))) ELSE s

RECURSIVE RStrip(_)
RStrip(s) == IF Len(s) > 0 /\ IsSpace(CharAt(s, Len(s))) THEN RStrip(SubSeq(s, 1, Len(s) - 1)) ELSE s

Strip(s) == RStrip(LStrip(s))

ToUpper == [c \in {CharAt(LowerAlphabet, i) : i \in 1..26} |->
               CharAt(UpperAlphabet, CHOOSE i \in 1..26 : CharAt(LowerAlphabet, i) = c)]

ToLower == [c \in {CharAt(UpperAlphabet, i) : i \in 1..26} |->
               CharAt(LowerAlphabet, CHOOSE i \in 1..26 : CharAt(UpperAlphabet, i) = c)]

UpperChar(c) == IF c \in DOMAIN ToUpper THEN ToUpper[c] ELSE c

LowerChar(c) == IF c \in DOMAIN ToLower THEN ToLower[c] ELSE c

\* str.upper() and str.lower()
RECURSIVE Upper(_)
Upper(s) == IF Len(s) = 0 THEN "" ELSE UpperChar(CharAt(s, 1)) \o Upper(SubSeq(s, 2, Len(s)))

RECURSIVE Lower(_)
Lower(s) == IF Len(s) = 0 THEN "" ELSE LowerChar(CharAt(s, 1)) \o Lower(SubSeq(s, 2, Len(s)))

\* str.replace("_", " ")
RECURSIVE ReplaceUnderscore(_)
ReplaceUnderscore(s) ==
    IF Len(s) = 0 THEN ""
    ELSE (IF CharAt(s, 1) = "_" THEN " " ELSE CharAt(s, 1)) \o ReplaceUnderscore(SubSeq(s, 2, Len(s)))

\* str.split(","): the pieces between commas, empty pieces kept
RECURSIVE SplitFrom(_, _, _)
SplitFrom(s, i, cur) ==
    IF i > Len(s) THEN <<cur>>
    ELSE IF CharAt(s, i) = "," THEN <<cur>> \o SplitFrom(s, i + 1, "")
    ELSE SplitFrom(s, i + 1, cur \o CharAt(s, i))

SplitComma(s) == SplitFrom(s, 1, "")

\* x in list
InSeq(x, seq) == \E i \in 1..Len(seq) : seq[i] = x

\* [f(x) for x in seq if p(x)] for the two comprehensions of the checker
RECURSIVE StrippedNonEmpty(_)
StrippedNonEmpty(seq) ==
    IF seq = <<>> THEN <<>>
    ELSE (IF Strip(Head(seq)) # "" THEN <<Strip(Head(seq))>> ELSE <<>>) \o StrippedNonEmpty(Tail(seq))

\* variant: every name of the reply is kept
KeepDeclared_all(seq, declared) == seq

RECURSIVE KeepDeclared(_, _)
KeepDeclared(seq, declared) ==
    IF seq = <<>> THEN <<>>
    ELSE (IF InSeq(Head(seq), declared) THEN <<Head(seq)>> ELSE <<>>) \o KeepDeclared(Tail(seq), declared)

\* ------------------------------------------------------------ data model
\* Optional[...] = None
None == "<None>"
NoConfidence == -1

\* Message(role=..., content=...)
Message(role, content) == [role |-> role, content |-> content]

\* requirement_attempts = {}
EmptyAttempts == [k \in {} |-> 0]

\* AgentState.requirement_attempts: a field of the state that the checkpoint keeps
\* from turn to turn, an empty map by default
requirement_attempts_default == EmptyAttempts

\* AgentState(): every field at its default
DefaultState ==
    [messages |-> <<>>,
     category |-> None,
     missing_requirements |-> <<>>,
     requirement_attempts |-> requirement_attempts_default,
     confidence |-> NoConfidence,
     needs_escalation |-> FALSE,
     workflow_step |-> None]

\* Agent(confidence_threshold=0.7); confidence is len(text) / 100, so both are
\* kept in hundredths: 0.7 is 70 and a text of n characters scores n
confidence_threshold == 70

\* the retry ceiling of the requirement check
max_attempts == 2

\* ------------------------------------------------------- oracle and hooks
\* an llm.ainvoke call returns a reply (ok, its content) or raises (its str(e))
Reply(text) == [ok |-> TRUE, text |-> text]
Failure(detail) == [ok |-> FALSE, text |-> detail]

ErrorDetails == {"timeout", "connection to the completion service timed out after 30 seconds of waiting"}
OracleFailures == {Failure(d) : d \in ErrorDetails}

ContinuityReplies == {Reply("NEW"), Reply(" new\n"), Reply("CONTINUE"), Failure("timeout")}

ClassifyReplies ==
    {Reply("BillingInquiry"), Reply(" billinginquiry "), Reply("GENERAL\n"), Reply("Refunds"), Failure("timeout")}

RequirementReplies ==
    {Reply("NONE"), Reply("account_number"), Reply("account number, phone"), Reply(" Account_Number "),
     Failure("timeout")}

GenerateReplies ==
    {Reply("Please restart the router and tell me which lights stay on afterwards"),
     Reply("Please restart the router and tell me which lights stay on afterwards."),
     Reply("")} \cup OracleFailures

\* the message the default escalation hook returns
EscalationText == "Your request is being reviewed by our team and we'll get back to you shortly."

\* handle_low_confidence(state): the messages of its HandlerResponse
handle_low_confidence(state) == <<Message("assistant", EscalationText)>>

\* what a registered handler may do: return messages, or raise
HandlerReturn(messages) == [raised |-> FALSE, messages |-> messages]
HandlerRaise == [raised |-> TRUE, messages |-> <<>>]
HandlerOutcomes ==
    {HandlerReturn(<<Message("assistant", "Ticket created.")>>),
     HandlerReturn(<<Message("assistant", "")>>),
     HandlerReturn(<<>>),
     HandlerRaise}

\* the arguments chat is called with
ChatMessages == {"hi", " hi\n", "  "}
ChatUserIds == Users \cup {" "}

\* the agent classes: the base Agent (no categories), a billing desk whose category
\* requires a field, one whose requirement table names another category only, and
\* a general desk whose category requires none
AgentConfigs ==
    {[categories |-> <<>>, requirements |-> <<>>],
     [categories |-> <<"BillingInquiry">>,
      requirements |-> <<[category |-> "BillingInquiry", required_fields |-> <<"account_number">>]>>],
     [categories |-> <<"BillingInquiry">>,
      requirements |-> <<[category |-> "AccountAccess", required_fields |-> <<"username">>]>>],
     [categories |-> <<"General">>,
      requirements |-> <<[category |-> "General", required_fields |-> <<>>]>>]}

\* ------------------------------------------------- classifier and checker
\* classify_message_with_llm: the category the reply names, as declared, or "default"
RECURSIVE MatchCategory(_, _)
MatchCategory(lowered, cats) ==
    IF cats = <<>> THEN "default"
    ELSE IF Lower(Head(cats)) = lowered THEN Head(cats)
    ELSE MatchCategory(lowered, Tail(cats))

\* variant: the name is returned as the oracle spelled it
classify_message_with_llm_echo(reply, cats) ==
    IF cats = <<>> THEN "default"
    ELSE IF ~reply.ok THEN "default"
    ELSE IF MatchCategory(Lower(Strip(reply.text)), cats) = "default" THEN "default"
    ELSE Strip(reply.text)

\* variant: a failed call leaves the category unset
classify_message_with_llm_unset(reply, cats) ==
    IF cats = <<>> THEN "default"
    ELSE IF ~reply.ok THEN None
    ELSE MatchCategory(Lower(Strip(reply.text)), cats)

\* classify_message_with_llm
classify_message_with_llm(reply, cats) ==
    IF cats = <<>> THEN "default"
    ELSE IF ~reply.ok THEN "default"
    ELSE MatchCategory(Lower(Strip(reply.text)), cats)

\* the first requirement entry of the category: <<entry>>, or <<>> for None
RECURSIVE FindRequirement(_, _)
FindRequirement(reqs, category) ==
    IF reqs = <<>> THEN <<>>
    ELSE IF Head(reqs).category = category THEN <<Head(reqs)>>
    ELSE FindRequirement(Tail(reqs), category)

\* variant: the oracle is asked about every category the table has an entry for
RequirementsConsultOracle_any_entry(category, reqs) ==
    LET category_reqs == FindRequirement(reqs, category)
    IN  category_reqs # <<>>

\* whether check_requirements_with_llm calls the oracle at all
RequirementsConsultOracle(category, reqs) ==
    LET category_reqs == FindRequirement(reqs, category)
    IN  category_reqs # <<>> /\ category_reqs[1].required_fields # <<>>

\* variant: a failed call counts as nothing missing
check_requirements_with_llm_fail_open(reply, category, reqs) ==
    LET category_reqs == FindRequirement(reqs, category) IN
    IF ~RequirementsConsultOracle(category, reqs) THEN [met |-> TRUE, missing |-> <<>>]
    ELSE IF ~reply.ok THEN [met |-> TRUE, missing |-> <<>>]
    ELSE LET result == Strip(reply.text)
             missing_fields == StrippedNonEmpty(SplitComma(result))
             valid_missing == KeepDeclared(missing_fields, category_reqs[1].required_fields)
         IN  IF Upper(result) = "NONE" THEN [met |-> TRUE, missing |-> <<>>]
             ELSE [met |-> Len(valid_missing) = 0, missing |-> valid_missing]

\* variant: the flag is computed from the names of the reply before they are validated
check_requirements_with_llm_unvalidated_flag(reply, category, reqs) ==
    LET category_reqs == FindRequirement(reqs, category) IN
    IF ~RequirementsConsultOracle(category, reqs) THEN [met |-> TRUE, missing |-> <<>>]
    ELSE IF ~reply.ok THEN [met |-> FALSE, missing |-> category_reqs[1].required_fields]
    ELSE LET result == Strip(reply.text)
             missing_fields == StrippedNonEmpty(SplitComma(result))
             valid_missing == KeepDeclared(missing_fields, category_reqs[1].required_fields)
         IN  IF Upper(result) = "NONE" THEN [met |-> TRUE, missing |-> <<>>]
             ELSE [met |-> Len(missing_fields) = 0, missing |-> valid_missing]

\* check_requirements_with_llm: (requirements_met, missing_fields)
check_requirements_with_llm(reply, category, reqs) ==
    LET category_reqs == FindRequirement(reqs, category) IN
    IF ~RequirementsConsultOracle(category, reqs) THEN [met |-> TRUE, missing |-> <<>>]
    ELSE IF ~reply.ok THEN [met |-> FALSE, missing |-> category_reqs[1].required_fields]
    ELSE LET result == Strip(reply.text)
             missing_fields == StrippedNonEmpty(SplitComma(result))
             valid_missing == KeepDeclared(missing_fields, category_reqs[1].required_fields)
         IN  IF Upper(result) = "NONE" THEN [met |-> TRUE, missing |-> <<>>]
             ELSE [met |-> Len(valid_missing) = 0, missing |-> valid_missing]

\* ------------------------------------------------------ continuity detector
\* the user messages of a transcript, in order
RECURSIVE UserMessagesOf(_)
UserMessagesOf(messages) ==
    IF messages = <<>> THEN <<>>
    ELSE (IF Head(messages).role = "user" THEN <<Head(messages)>> ELSE <<>>)
             \o UserMessagesOf(Tail(messages))

\* variant: the window is the last three user messages before the current one
LookbackWindow_prior_users(messages) ==
    LET prior == UserMessagesOf(SubSeq(messages, 1, Len(messages) - 1))
        first == IF Len(prior) - 2 > 1 THEN Len(prior) - 2 ELSE 1
    IN  SubSeq(prior, first, Len(prior))

\* state.messages[-4:-1]
LookbackWindow(messages) ==
    LET n == Len(messages)
        first == IF n - 3 > 1 THEN n - 3 ELSE 1
    IN  SubSeq(messages, first, n - 1)

RECURSIVE UserContents(_)
UserContents(messages) ==
    IF messages = <<>> THEN <<>>
    ELSE (IF Head(messages).role = "user" THEN <<Head(messages).content>> ELSE <<>>)
             \o UserContents(Tail(messages))

\* whether _is_new_conversation_thread calls the oracle at all
ContinuityConsultsOracle(messages) ==
    Len(messages) > 1 /\ UserContents(LookbackWindow(messages)) # <<>>

\* variant: a failed oracle call counts as a new topic
is_new_conversation_thread_fail_open(messages, reply) ==
    IF Len(messages) <= 1 THEN TRUE
    ELSE IF UserContents(LookbackWindow(messages)) = <<>> THEN TRUE
    ELSE IF reply.ok THEN Upper(Strip(reply.text)) = "NEW"
    ELSE TRUE

\* _is_new_conversation_thread
is_new_conversation_thread(messages, reply) ==
    IF Len(messages) <= 1 THEN TRUE
    ELSE IF UserContents(LookbackWindow(messages)) = <<>> THEN TRUE
    ELSE IF reply.ok THEN Upper(Strip(reply.text)) = "NEW"
    ELSE FALSE

\* -------------------------------------------------------------- responses
\* _generate_missing_requirements_response
generate_missing_requirements_response(category, missing_fields) ==
    IF missing_fields = <<>> THEN "I have all the information I need. Let me help you with that."
    ELSE LET field == missing_fields[1]
             field_display == ReplaceUnderscore(field)
         IN  IF category = "TechnicalSupport" /\ field = "problem_details"
             THEN "Could you describe the technical issue you're experiencing? Please include any error messages or specific symptoms."
             ELSE IF category = "BillingInquiry" /\ field = "account_number"
             THEN "I'll need your account number to assist with billing matters. You can find this on your billing statement or customer portal."
             ELSE IF category = "AccountAccess" /\ field = "username"
             THEN "What username are you having trouble accessing?"
             ELSE "Could you please provide your " \o field_display \o "?"

\* _generate_response: the completion, or "Error: " + str(e) when the call raises
generate_response(reply) ==
    IF reply.ok THEN reply.text ELSE "Error: " \o reply.text

\* variant: one counter for all categories
SessionKey_per_step(workflow_step, category) == workflow_step \o "_requirements"

\* the key of the attempt counter of a category
SessionKey(workflow_step, category) == workflow_step \o "_" \o category \o "_requirements"

\* requirement_attempts with the counter of key incremented (0 when not yet there)
IncrementAttempts(attempts, key) ==
    [k \in DOMAIN attempts \cup {key} |-> (IF k \in DOMAIN attempts THEN attempts[k] ELSE 0) + (IF k = key THEN 1 ELSE 0)]

\* the two texts chat returns when the workflow gave no answer
NoResponseText == "I apologize, but I couldn't process your request."
WorkflowErrorText == "I apologize, but I encountered an error while processing your request. Please try again."

\* chat: the text extracted from the final state of the workflow; its messages
\* are Message objects, so the content of the last one is returned
ExtractResponse(messages) ==
    IF messages # <<>> THEN messages[Len(messages)].content ELSE NoResponseText

\* message.strip() is empty / user_id.strip() is empty
\* variant: the arguments are compared without being stripped
InvalidArguments_unstripped(message, user_id) == message = "" \/ user_id = ""

InvalidArguments(message, user_id) == Strip(message) = "" \/ Strip(user_id) = ""

\* chat: raise ValueError(...)
chat_rejects(message, user_id) ==
    [kind |-> "raise",
     text |-> IF Strip(message) = "" THEN "Message must be a non-empty string"
              ELSE "User ID must be a non-empty string"]

\* variant: the exception is raised again
chat_reraises(detail) == [kind |-> "raise", text |-> detail]

\* chat: except Exception as e around the workflow
chat_on_workflow_error(detail) == [kind |-> "text", text |-> WorkflowErrorText]

\* chat: the return after the workflow
chat_returns(messages) == [kind |-> "text", text |-> ExtractResponse(messages)]

\* ------------------------------------------------------------------ state
VARIABLES
    categories,     \* get_classification_categories() of the agent
    requirements,   \* get_category_requirements() of the agent
    handlers,       \* self.handlers: the names a handler is registered under
    store,          \* self._memory: the checkpointed state of each thread id
    chainOf,        \* history: the run of unsatisfied turns checkpointed with each thread
    turns,          \* the chat calls in flight or last returned, one per slot
    budget,         \* chat calls with valid arguments still to start
    probe           \* the last direct call of the classifier or the requirement checker

vars == <<categories, requirements, handlers, store, chainOf, turns, budget, probe>>

\* the names the developer of the agent registers handlers under
HandlerNames ==
    IF categories = <<>> THEN {"default"}
    ELSE IF categories = <<"BillingInquiry">> THEN {"BillingInquiry"}
    ELSE {"General", "default"}

\* history of a thread: n consecutive turns, the first one judged a new topic, every
\* one of them an unsatisfied requirement check of category cat; n = -1 once a turn
\* of the topic was anything else
FreshChain == [cat |-> None, n |-> 0]
BrokenChain == [cat |-> None, n |-> -1]

NoResult == [kind |-> "none", text |-> ""]
NoCall == Reply("")

IdleTurn ==
    [pc |-> "idle", user |-> "", args |-> <<>>, state |-> DefaultState, result |-> NoResult,
     path |-> <<>>, calls |-> 0, failed |-> {}, newTopic |-> None, generated |-> <<>>,
     handled |-> <<>>, escalations |-> 0, readFailed |-> FALSE, before |-> <<>>,
     chain |-> FreshChain]

\* no direct call made
NoProbe == [fn |-> "none", reply |-> NoCall, category |-> None, messages |-> <<>>, out |-> None]

\* the agent after __init__, with n chat calls to come
InitWith(n) ==
    /\ \E c \in AgentConfigs : categories = c.categories /\ requirements = c.requirements
    /\ store = [u \in Users |-> DefaultState]
    /\ chainOf = [u \in Users |-> FreshChain]
    /\ turns = [t \in Slots |-> IdleTurn]
    /\ budget = n
    /\ probe = NoProbe

Init == InitWith(MaxTurns) /\ handlers = {}

\* the agent after __init__ and the registrations of its set-up code
InitPar == InitWith(MaxParTurns) /\ handlers \in {{}, HandlerNames}

Free(t) == turns[t].pc \in {"idle", "done"}

\* variant: a write does not replace a longer stored transcript
Checkpoint_keeps_longer(t, state, chain) ==
    IF Len(store[turns[t].user].messages) > Len(state.messages)
    THEN UNCHANGED <<store, chainOf>>
    ELSE /\ store' = [store EXCEPT ![turns[t].user] = state]
         /\ chainOf' = [chainOf EXCEPT ![turns[t].user] = chain]

\* variant: one state shared by every thread
Checkpoint_shared(t, state, chain) ==
    /\ store' = [u \in Users |-> state]
    /\ chainOf' = [u \in Users |-> chain]

\* the checkpoint written after a step of the workflow of turn t
Checkpoint(t, state, chain) ==
    /\ store' = [store EXCEPT ![turns[t].user] = state]
    /\ chainOf' = [chainOf EXCEPT ![turns[t].user] = chain]

\* ------------------------------------------------------ handler registration
\* variant: a registered name is registered again without complaint
register_handler_overwrites(table, category, callable) ==
    IF category = "" THEN [raised |-> TRUE, error |-> "Category must be a non-empty string", table |-> table]
    ELSE IF ~callable THEN [raised |-> TRUE, error |-> "Handler must be callable", table |-> table]
    ELSE [raised |-> FALSE, error |-> "", table |-> table \cup {category}]

\* register_handler(category, handler): the ValueError it raises, or the new table
register_handler(table, category, callable) ==
    IF category = "" THEN [raised |-> TRUE, error |-> "Category must be a non-empty string", table |-> table]
    ELSE IF ~callable THEN [raised |-> TRUE, error |-> "Handler must be callable", table |-> table]
    ELSE IF category \in table
    THEN [raised |-> TRUE,
          error |-> "Handler for category '" \o category
                       \o "' already registered. Use a different category name or unregister first.",
          table |-> table]
    ELSE [raised |-> FALSE, error |-> "", table |-> table \cup {category}]

\* unregister_handler(category): self.handlers.pop(category, None)
unregister_handler(table, category) == table \ {category}

\* a call of register_handler that returns
RegisterHandler(category, callable) ==
    /\ ~register_handler(handlers, category, callable).raised
    /\ handlers' = register_handler(handlers, category, callable).table
    /\ UNCHANGED <<categories, requirements, store, chainOf, turns, budget, probe>>

\* unregister_handler(category): self.handlers.pop(category, None)
UnregisterHandler(category) ==
    /\ handlers' = unregister_handler(handlers, category)
    /\ UNCHANGED <<categories, requirements, store, chainOf, turns, budget, probe>>

\* ------------------------------------------------------------------- chat
\* variant: the stored state is used although the read failed
read_state_ignores_failure(user_id, readFails) == store[user_id]

\* chat: the state read from the checkpointer, a fresh one when there is none or
\* the read fails
read_state(user_id, readFails) == IF readFails THEN DefaultState ELSE store[user_id]

\* chat up to the call of the workflow: validation, then the read of the thread's
\* state (a failed read falls back to a fresh state) and the append of the message
Chat(t, message, user_id, readFails) ==
    /\ Free(t)
    /\ \A o \in Slots : Free(o) => t <= o
    /\ IF InvalidArguments(message, user_id)
       THEN /\ ~readFails
            /\ turns' = [turns EXCEPT ![t] =
                   [IdleTurn EXCEPT !.pc = "done", !.args = <<message, user_id>>,
                                    !.result = chat_rejects(message, user_id)]]
            /\ UNCHANGED budget
       ELSE /\ budget > 0
            /\ budget' = budget - 1
            /\ LET existing == read_state(user_id, readFails)
                   current_state == [existing EXCEPT !.messages = Append(@, Message("user", Strip(message)))]
               IN  turns' = [turns EXCEPT ![t] =
                       [IdleTurn EXCEPT !.pc = "invoke", !.user = user_id, !.args = <<message, user_id>>,
                                        !.state = current_state, !.readFailed = readFails,
                                        !.before = existing.messages,
                                        !.chain = IF readFails THEN FreshChain ELSE chainOf[user_id]]]
    /\ UNCHANGED <<categories, requirements, handlers, store, chainOf, probe>>

\* self._workflow.ainvoke(current_state): the input becomes the thread's state
Invoke(t) ==
    /\ turns[t].pc = "invoke"
    /\ turns' = [turns EXCEPT ![t].pc = "classify"]
    /\ Checkpoint(t, turns[t].state, turns[t].chain)
    /\ UNCHANGED <<categories, requirements, handlers, budget, probe>>

\* --------------------------------------------------------- workflow nodes
\* variant: the attempt counters are cleared in every turn
classify_node_always_resets(state, isNew, category) ==
    [state EXCEPT !.workflow_step = "classify",
                  !.missing_requirements = <<>>,
                  !.requirement_attempts = EmptyAttempts,
                  !.category = category]

\* _classify_node: the state it returns
classify_node(state, isNew, category) ==
    [state EXCEPT !.workflow_step = "classify",
                  !.missing_requirements = <<>>,
                  !.requirement_attempts = IF isNew THEN EmptyAttempts ELSE @,
                  !.category = category]

\* variant: the requirement check is entered in every turn
should_check_requirements_always(state) == "check_requirements"

\* variant: the category "default" is checked and routed like any other
should_check_requirements_default_too(state) ==
    IF categories # <<>> /\ state.category \notin {None, ""}
    THEN "check_requirements" ELSE "generate_response"

\* _should_check_requirements
should_check_requirements(state) ==
    IF categories # <<>> /\ state.category \notin {None, "", "default"}
    THEN "check_requirements" ELSE "generate_response"

\* variant: the limit is reached one attempt early
attempts_exceeded_at_limit(count) == count >= 2

\* _check_requirements_node: requirement_attempts[session_key] > max_attempts
attempts_exceeded(count) == count > max_attempts

\* variant: the follow-up question is not appended
check_requirements_node_silent(state, checked) ==
    LET s1 == [state EXCEPT !.workflow_step = "check_requirements", !.missing_requirements = checked.missing]
        session_key == SessionKey(s1.workflow_step, s1.category)
        s2 == [s1 EXCEPT !.requirement_attempts = IncrementAttempts(@, session_key)]
    IN  IF checked.met THEN s1
        ELSE IF attempts_exceeded(s2.requirement_attempts[session_key])
        THEN LET s3 == [s2 EXCEPT !.needs_escalation = TRUE]
             IN  [s3 EXCEPT !.messages = @ \o handle_low_confidence(s3)]
        ELSE s2

\* variant: the forced escalation takes the place of the last message
check_requirements_node_replaces(state, checked) ==
    LET s1 == [state EXCEPT !.workflow_step = "check_requirements", !.missing_requirements = checked.missing]
        session_key == SessionKey(s1.workflow_step, s1.category)
        s2 == [s1 EXCEPT !.requirement_attempts = IncrementAttempts(@, session_key)]
    IN  IF checked.met THEN s1
        ELSE IF attempts_exceeded(s2.requirement_attempts[session_key])
        THEN LET s3 == [s2 EXCEPT !.needs_escalation = TRUE]
             IN  [s3 EXCEPT !.messages = SubSeq(@, 1, Len(@) - 1) \o handle_low_confidence(s3)]
        ELSE [s2 EXCEPT !.messages = Append(@, Message("assistant",
                     generate_missing_requirements_response(s2.category, checked.missing)))]

\* variant: the attempt counter is kept under the step name the node found in the state
check_requirements_node_stale_key(state, checked) ==
    LET s1 == [state EXCEPT !.workflow_step = "check_requirements", !.missing_requirements = checked.missing]
        session_key == SessionKey(state.workflow_step, s1.category)
        s2 == [s1 EXCEPT !.requirement_attempts = IncrementAttempts(@, session_key)]
    IN  IF checked.met THEN s1
        ELSE IF attempts_exceeded(s2.requirement_attempts[session_key])
        THEN LET s3 == [s2 EXCEPT !.needs_escalation = TRUE]
             IN  [s3 EXCEPT !.messages = @ \o handle_low_confidence(s3)]
        ELSE [s2 EXCEPT !.messages = Append(@, Message("assistant",
                     generate_missing_requirements_response(s2.category, checked.missing)))]

\* variant: the forced escalation starts the count of the category again
check_requirements_node_resets_on_escalation(state, checked) ==
    LET s1 == [state EXCEPT !.workflow_step = "check_requirements", !.missing_requirements = checked.missing]
        session_key == SessionKey(s1.workflow_step, s1.category)
        s2 == [s1 EXCEPT !.requirement_attempts = IncrementAttempts(@, session_key)]
    IN  IF checked.met THEN s1
        ELSE IF attempts_exceeded(s2.requirement_attempts[session_key])
        THEN LET s3 == [s2 EXCEPT !.needs_escalation = TRUE,
                                  !.requirement_attempts = [@ EXCEPT ![session_key] = 1]]
             IN  [s3 EXCEPT !.messages = @ \o handle_low_confidence(s3)]
        ELSE [s2 EXCEPT !.messages = Append(@, Message("assistant",
                     generate_missing_requirements_response(s2.category, checked.missing)))]

\* _check_requirements_node: the state it returns, given the checker's result
check_requirements_node(state, checked) ==
    LET s1 == [state EXCEPT !.workflow_step = "check_requirements", !.missing_requirements = checked.missing]
        session_key == SessionKey(s1.workflow_step, s1.category)
        s2 == [s1 EXCEPT !.requirement_attempts = IncrementAttempts(@, session_key)]
    IN  IF checked.met THEN s1
        ELSE IF attempts_exceeded(s2.requirement_attempts[session_key])
        THEN LET s3 == [s2 EXCEPT !.needs_escalation = TRUE]
             IN  [s3 EXCEPT !.messages = @ \o handle_low_confidence(s3)]
        ELSE [s2 EXCEPT !.messages = Append(@, Message("assistant",
                     generate_missing_requirements_response(s2.category, checked.missing)))]

\* whether _check_requirements_node calls the escalation hook
ForcesEscalation(state, checked) ==
    /\ ~checked.met
    /\ attempts_exceeded(
           IncrementAttempts(state.requirement_attempts, SessionKey("check_requirements", state.category))
               [SessionKey("check_requirements", state.category)])

\* variant: the workflow goes on to routing whatever the check reported
requirements_met_always_route(state) == "route"

\* _requirements_met
requirements_met(state) ==
    IF state.missing_requirements # <<>> THEN "end" ELSE "route"

\* variant: the handler table is not consulted
has_custom_handler_never(state) == "generate_response"

\* _has_custom_handler
has_custom_handler(state) ==
    IF state.category \notin {None, ""} /\ state.category \in handlers
    THEN "execute_handler" ELSE "generate_response"

\* variant: a response exactly at the threshold is escalated too
score_confidence_node_at_most(state) ==
    LET s1 == [state EXCEPT !.workflow_step = "score_confidence"] IN
    IF s1.messages # <<>>
    THEN LET confidence == Len(s1.messages[Len(s1.messages)].content)
         IN  [s1 EXCEPT !.confidence = confidence, !.needs_escalation = confidence <= confidence_threshold]
    ELSE s1

\* variant: the flag is raised by a low score and never lowered
score_confidence_node_sticky(state) ==
    LET s1 == [state EXCEPT !.workflow_step = "score_confidence"] IN
    IF s1.messages # <<>>
    THEN LET confidence == Len(s1.messages[Len(s1.messages)].content)
         IN  [s1 EXCEPT !.confidence = confidence,
                        !.needs_escalation = @ \/ confidence < confidence_threshold]
    ELSE s1

\* _score_confidence_node
score_confidence_node(state) ==
    LET s1 == [state EXCEPT !.workflow_step = "score_confidence"] IN
    IF s1.messages # <<>>
    THEN LET confidence == Len(s1.messages[Len(s1.messages)].content)
         IN  [s1 EXCEPT !.confidence = confidence, !.needs_escalation = confidence < confidence_threshold]
    ELSE s1

\* variant: a response below the threshold is generated again
confidence_check_regenerate(state) ==
    IF state.needs_escalation THEN "generate_response" ELSE "end"

\* _confidence_check
confidence_check(state) ==
    IF state.needs_escalation THEN "escalate" ELSE "end"

\* variant: the escalation messages replace the whole transcript
escalate_node_replaces_all(state) ==
    LET s1 == [state EXCEPT !.workflow_step = "escalate"]
    IN  [s1 EXCEPT !.messages = handle_low_confidence(s1)]

\* variant: the escalation messages are appended after the draft
escalate_node_appends(state) ==
    LET s1 == [state EXCEPT !.workflow_step = "escalate"]
    IN  [s1 EXCEPT !.messages = @ \o handle_low_confidence(s1)]

\* _escalate_node: state.messages[-1:] = escalation_response.messages
escalate_node(state) ==
    LET s1 == [state EXCEPT !.workflow_step = "escalate"]
    IN  [s1 EXCEPT !.messages = SubSeq(@, 1, Len(@) - 1) \o handle_low_confidence(s1)]

\* the history of the thread after the classify node and after the requirement check
ChainAfterClassify(chain, isNew, next) ==
    LET c == IF isNew THEN FreshChain ELSE chain
    IN  IF next = "check_requirements" THEN c ELSE BrokenChain

ChainAfterCheck(chain, met, category) ==
    IF met \/ chain.n = -1 THEN BrokenChain
    ELSE IF chain.n = 0 THEN [cat |-> category, n |-> 1]
    ELSE IF chain.cat = category THEN [chain EXCEPT !.n = @ + 1]
    ELSE BrokenChain

\* the outcomes of the two oracle calls of the classify node: what the detector
\* reports, the category, and which of the calls failed
ClassifyOutcomes(messages) ==
    LET consult == ContinuityConsultsOracle(messages)
        classifies == categories # <<>>
    IN  {[isNew |-> is_new_conversation_thread(messages, creply),
          category |-> IF classifies THEN classify_message_with_llm(kreply, categories) ELSE "default",
          failed |-> (IF consult /\ ~creply.ok THEN {"continuity"} ELSE {})
                        \cup (IF classifies /\ ~kreply.ok THEN {"classify"} ELSE {}),
          calls |-> (IF consult THEN 1 ELSE 0) + (IF classifies THEN 1 ELSE 0)] :
            creply \in (IF consult THEN ContinuityReplies ELSE {NoCall}),
            kreply \in (IF classifies THEN ClassifyReplies ELSE {NoCall})}

ClassifyNode(t) ==
    LET T == turns[t] IN
    /\ T.pc = "classify"
    /\ \E o \in ClassifyOutcomes(T.state.messages) :
          LET state == classify_node(T.state, o.isNew, o.category)
              next == should_check_requirements(state)
              chain == ChainAfterClassify(T.chain, o.isNew, next)
          IN  /\ turns' = [turns EXCEPT ![t] =
                     [T EXCEPT !.pc = next, !.state = state, !.path = Append(@, "classify"),
                               !.newTopic = o.isNew, !.chain = chain,
                               !.calls = @ + o.calls, !.failed = @ \cup o.failed]]
              /\ Checkpoint(t, state, chain)
    /\ UNCHANGED <<categories, requirements, handlers, budget, probe>>

\* the outcomes of the oracle call of the requirement check
CheckOutcomes(category) ==
    LET consult == RequirementsConsultOracle(category, requirements)
    IN  {[checked |-> check_requirements_with_llm(reply, category, requirements),
          failed |-> IF consult /\ ~reply.ok THEN {"requirements"} ELSE {},
          calls |-> IF consult THEN 1 ELSE 0] :
            reply \in (IF consult THEN RequirementReplies ELSE {NoCall})}

CheckRequirementsNode(t) ==
    LET T == turns[t] IN
    /\ T.pc = "check_requirements"
    /\ \E o \in CheckOutcomes(T.state.category) :
          LET state == check_requirements_node(T.state, o.checked)
              chain == ChainAfterCheck(T.chain, o.checked.met, T.state.category)
          IN  /\ turns' = [turns EXCEPT ![t] =
                     [T EXCEPT !.pc = requirements_met(state), !.state = state,
                               !.path = Append(@, "check_requirements"), !.chain = chain,
                               !.calls = @ + o.calls, !.failed = @ \cup o.failed,
                               !.escalations = @ + (IF ForcesEscalation(T.state, o.checked) THEN 1 ELSE 0)]]
              /\ Checkpoint(t, state, chain)
    /\ UNCHANGED <<categories, requirements, handlers, budget, probe>>

\* _execute_handler_node: the state it returns when the handler returned messages
execute_handler_node(state, messages) ==
    LET s1 == [state EXCEPT !.workflow_step = "execute_handler"]
    IN  [s1 EXCEPT !.messages = @ \o messages]

\* variant: an empty response is not appended
generate_response_node_skips_empty(state, response) ==
    LET s1 == [state EXCEPT !.workflow_step = "generate_response"]
    IN  IF response = "" THEN s1
        ELSE [s1 EXCEPT !.messages = Append(@, Message("assistant", response))]

\* _generate_response_node: the state it returns, given the generated response
generate_response_node(state, response) ==
    LET s1 == [state EXCEPT !.workflow_step = "generate_response"]
    IN  [s1 EXCEPT !.messages = Append(@, Message("assistant", response))]

\* _route_node
route_node(state) == [state EXCEPT !.workflow_step = "route"]

\* _route_node, then the edge _has_custom_handler
RouteNode(t) ==
    LET T == turns[t]
        state == route_node(T.state)
    IN
    /\ T.pc = "route"
    /\ turns' = [turns EXCEPT ![t] =
           [T EXCEPT !.pc = has_custom_handler(state), !.state = state, !.path = Append(@, "route")]]
    /\ Checkpoint(t, state, T.chain)
    /\ UNCHANGED <<categories, requirements, handlers, budget, probe>>

\* _execute_handler_node; a handler that raises ends the workflow, and chat returns
\* its error text
ExecuteHandlerNode(t) ==
    LET T == turns[t]
        s1 == execute_handler_node(T.state, <<>>)
    IN
    /\ T.pc = "execute_handler"
    /\ IF s1.category \in handlers
       THEN \E outcome \in HandlerOutcomes :
              IF outcome.raised
              THEN /\ turns' = [turns EXCEPT ![t] =
                          [T EXCEPT !.pc = "done", !.path = Append(@, "execute_handler"),
                                    !.handled = Append(@, outcome),
                                    !.result = chat_on_workflow_error("Handler error")]]
                   /\ UNCHANGED <<store, chainOf>>
              ELSE LET state == execute_handler_node(T.state, outcome.messages)
                   IN  /\ turns' = [turns EXCEPT ![t] =
                              [T EXCEPT !.pc = "end", !.state = state,
                                        !.path = Append(@, "execute_handler"),
                                        !.handled = Append(@, outcome)]]
                       /\ Checkpoint(t, state, T.chain)
       ELSE /\ turns' = [turns EXCEPT ![t] =
                   [T EXCEPT !.pc = "end", !.state = s1, !.path = Append(@, "execute_handler")]]
            /\ Checkpoint(t, s1, T.chain)
    /\ UNCHANGED <<categories, requirements, handlers, budget, probe>>

\* _generate_response_node
GenerateResponseNode(t) ==
    LET T == turns[t] IN
    /\ T.pc = "generate_response"
    /\ \E reply \in GenerateReplies :
          LET response == generate_response(reply)
              state == generate_response_node(T.state, response)
          IN  /\ turns' = [turns EXCEPT ![t] =
                     [T EXCEPT !.pc = "score_confidence", !.state = state,
                               !.path = Append(@, "generate_response"),
                               !.generated = Append(@, response),
                               !.calls = @ + 1,
                               !.failed = @ \cup (IF ~reply.ok THEN {"generate"} ELSE {})]]
              /\ Checkpoint(t, state, T.chain)
    /\ UNCHANGED <<categories, requirements, handlers, budget, probe>>

ScoreConfidenceNode(t) ==
    LET T == turns[t]
        state == score_confidence_node(T.state)
    IN
    /\ T.pc = "score_confidence"
    /\ turns' = [turns EXCEPT ![t] =
           [T EXCEPT !.pc = confidence_check(state), !.state = state,
                     !.path = Append(@, "score_confidence")]]
    /\ Checkpoint(t, state, T.chain)
    /\ UNCHANGED <<categories, requirements, handlers, budget, probe>>

EscalateNode(t) ==
    LET T == turns[t] IN
    /\ T.pc = "escalate"
    /\ LET state == escalate_node(T.state)
       IN  /\ turns' = [turns EXCEPT ![t] =
                  [T EXCEPT !.pc = "end", !.state = state, !.path = Append(@, "escalate"),
                            !.escalations = @ + 1]]
           /\ Checkpoint(t, state, T.chain)
    /\ UNCHANGED <<categories, requirements, handlers, budget, probe>>

\* chat after the workflow returned: the response text
Return(t) ==
    /\ turns[t].pc = "end"
    /\ turns' = [turns EXCEPT ![t].pc = "done",
                              ![t].result = chat_returns(turns[t].state.messages)]
    /\ UNCHANGED <<categories, requirements, handlers, store, chainOf, budget, probe>>

\* the steps of the chat call in slot t after its entry
TurnStep(t) ==
    \/ Invoke(t)
    \/ ClassifyNode(t)
    \/ CheckRequirementsNode(t)
    \/ RouteNode(t)
    \/ ExecuteHandlerNode(t)
    \/ GenerateResponseNode(t)
    \/ ScoreConfidenceNode(t)
    \/ EscalateNode(t)
    \/ Return(t)

Registration ==
    \/ \E name \in HandlerNames \cup {""}, callable \in BOOLEAN : RegisterHandler(name, callable)
    \/ \E name \in HandlerNames : UnregisterHandler(name)

\* the chat calls of one user, each returning before the next is made, with
\* registrations at any moment
Next ==
    \/ Registration
    \/ \E message \in ChatMessages, user_id \in {"alice", " "}, readFails \in BOOLEAN :
          Chat(1, message, user_id, readFails)
    \/ TurnStep(1)

Spec == Init /\ [][Next]_vars

\* the chat calls of two users, up to two of them in flight at once, every checkpoint
\* read succeeding
NextPar ==
    \/ \E t \in Slots, user_id \in Users : Chat(t, "hi", user_id, FALSE)
    \/ \E t \in Slots : TurnStep(t)

SpecPar == InitPar /\ [][NextPar]_vars

\* ------------------------------- the classifier and the checker called directly
\* category lists and requirement tables: none, one category, two categories of
\* which one requires two fields, two spellings of one name with two entries for
\* the same category, and a list that declares "default"
FnConfigs ==
    {[categories |-> <<>>, requirements |-> <<>>],
     [categories |-> <<"BillingInquiry">>,
      requirements |-> <<[category |-> "BillingInquiry", required_fields |-> <<"account_number">>]>>],
     [categories |-> <<"BillingInquiry", "General">>,
      requirements |-> <<[category |-> "BillingInquiry", required_fields |-> <<"account_number", "phone">>],
                         [category |-> "General", required_fields |-> <<>>]>>],
     [categories |-> <<"billing", "Billing">>,
      requirements |-> <<[category |-> "Billing", required_fields |-> <<"phone">>],
                         [category |-> "Billing", required_fields |-> <<"account_number">>]>>],
     [categories |-> <<"General", "default">>, requirements |-> <<>>]}

FnClassifyReplies ==
    ClassifyReplies \cup
    {Reply(""), Reply("default"), Reply("BILLING"), Reply("General, BillingInquiry"),
     Reply("billing inquiry"), Reply("Billing\n"),
     Failure("'NoneType' object has no attribute 'strip'")}

FnRequirementReplies ==
    RequirementReplies \cup
    {Reply("none"), Reply(""), Reply("phone,account_number"), Reply("ssn"),
     Reply(" , phone ,"), Reply("Phone"), Reply("account_number, ssn")}

FnCategories == {"BillingInquiry", "General", "Billing", "default"}

InitFn ==
    /\ \E c \in FnConfigs : categories = c.categories /\ requirements = c.requirements
    /\ handlers = {}
    /\ store = [u \in Users |-> DefaultState]
    /\ chainOf = [u \in Users |-> FreshChain]
    /\ turns = [t \in Slots |-> IdleTurn]
    /\ budget = 0
    /\ probe = NoProbe

\* await classify_message_with_llm(llm, message, categories)
ClassifyCall(reply) ==
    /\ probe' = [fn |-> "classify", reply |-> reply, category |-> None, messages |-> <<>>,
                 out |-> classify_message_with_llm(reply, categories)]
    /\ UNCHANGED <<categories, requirements, handlers, store, chainOf, turns, budget>>

\* await check_requirements_with_llm(llm, message, category, requirements)
CheckRequirementsCall(reply, category) ==
    /\ probe' = [fn |-> "check", reply |-> reply, category |-> category, messages |-> <<>>,
                 out |-> check_requirements_with_llm(reply, category, requirements)]
    /\ UNCHANGED <<categories, requirements, handlers, store, chainOf, turns, budget>>

\* transcripts whose last message is the current one: a first message, one and
\* three earlier exchanges, a turn whose handler returned nothing, and a turn whose
\* handler returned three messages
FnTranscripts ==
    LET u == Message("user", "hi")
        a == Message("assistant", "Ticket created.")
        n == Message("system", "ticket 7 opened")
    IN  {<<u>>, <<u, a, u>>, <<u, u>>, <<u, a, u, a, u, a, u>>, <<u, a, a, n, u>>, <<u, a, u, a, a, n, u>>}

\* the replies of the continuity oracle, and one that only starts with the word
FnContinuityReplies == ContinuityReplies \cup {Reply("NEW topic"), Reply("")}

\* await self._is_new_conversation_thread(state)
ContinuityCall(messages, reply) ==
    /\ probe' = [fn |-> "continuity",
                 reply |-> IF ContinuityConsultsOracle(messages) THEN reply ELSE NoCall,
                 category |-> None, messages |-> messages,
                 out |-> [consulted |-> ContinuityConsultsOracle(messages),
                          new |-> is_new_conversation_thread(messages, reply)]]
    /\ UNCHANGED <<categories, requirements, handlers, store, chainOf, turns, budget>>

\* register_handler(category, handler), returning or raising
RegisterCall(category, callable) ==
    /\ probe' = [fn |-> "register", reply |-> NoCall, category |-> category, messages |-> <<>>,
                 out |-> [callable |-> callable,
                          raised |-> register_handler(handlers, category, callable).raised,
                          error |-> register_handler(handlers, category, callable).error]]
    /\ handlers' = register_handler(handlers, category, callable).table
    /\ UNCHANGED <<categories, requirements, store, chainOf, turns, budget>>

\* unregister_handler(category)
UnregisterCall(category) ==
    /\ probe' = [fn |-> "unregister", reply |-> NoCall, category |-> category, messages |-> <<>>,
                 out |-> None]
    /\ handlers' = unregister_handler(handlers, category)
    /\ UNCHANGED <<categories, requirements, store, chainOf, turns, budget>>

FnHandlerNames == {"BillingInquiry", "General", ""}

NextFn ==
    \/ \E reply \in FnClassifyReplies : ClassifyCall(reply)
    \/ \E reply \in FnRequirementReplies, category \in FnCategories : CheckRequirementsCall(reply, category)
    \/ \E messages \in FnTranscripts, reply \in FnContinuityReplies : ContinuityCall(messages, reply)
    \/ \E category \in FnHandlerNames, callable \in BOOLEAN : RegisterCall(category, callable)
    \/ \E category \in FnHandlerNames : UnregisterCall(category)

SpecFn == InitFn /\ [][NextFn]_vars

\* ------------------------------------------- a longer thread of two categories
\* an agent with two categories that each require a field, its handler table
\* fixed by its set-up code, and one user whose reads of the stored state succeed
TopicConfig ==
    [categories |-> <<"BillingInquiry", "General">>,
     requirements |-> <<[category |-> "BillingInquiry", required_fields |-> <<"account_number">>],
                        [category |-> "General", required_fields |-> <<"account_number">>]>>]

InitTopic ==
    /\ categories = TopicConfig.categories
    /\ requirements = TopicConfig.requirements
    /\ handlers \in {{}, {"BillingInquiry"}}
    /\ store = [u \in Users |-> DefaultState]
    /\ chainOf = [u \in Users |-> FreshChain]
    /\ turns = [t \in Slots |-> IdleTurn]
    /\ budget = MaxTopicTurns
    /\ probe = NoProbe

NextTopic ==
    \/ Chat(1, "hi", "alice", FALSE)
    \/ TurnStep(1)

SpecTopic == InitTopic /\ [][NextTopic]_vars

\* ============================================================== properties
Last(seq) == seq[Len(seq)]

Contents(messages) == {messages[i].content : i \in 1..Len(messages)}

\* the message the chat call of a turn appended
UserMessage(T) == Message("user", Strip(T.args[1]))

Ended(T) == T.pc \in {"end", "done"}

\* the follow-up question for the fields the turn's requirement check reported
FollowUp(T) ==
    Message("assistant",
            generate_missing_requirements_response(T.state.category, T.state.missing_requirements))

\* C1: within one unbroken topic of one user and one category, the first and the
\* second consecutive turn whose requirement check is unsatisfied end with a
\* follow-up question appended to the transcript and returned, without any
\* escalation; the third such turn sets needs_escalation, appends the message of
\* the escalation handler instead of a follow-up question, and returns it
C1_EscalationCeiling ==
    \A t \in Slots :
        LET T == turns[t] IN
        (InSeq("check_requirements", T.path) /\ T.chain.n >= 1) =>
            /\ Ended(T)
            /\ Last(T.path) = "check_requirements"
            /\ T.state.missing_requirements # <<>>
            /\ store[T.user].messages = T.state.messages
            /\ T.chain.n \in {1, 2} =>
                  /\ T.escalations = 0
                  /\ T.state.messages = T.before \o <<UserMessage(T), FollowUp(T)>>
                  /\ T.pc = "done" => T.result = [kind |-> "text", text |-> FollowUp(T).content]
            /\ T.chain.n >= 3 =>
                  /\ T.escalations = 1
                  /\ T.state.needs_escalation
                  /\ T.state.messages = T.before \o <<UserMessage(T), Message("assistant", EscalationText)>>
                  /\ FollowUp(T).content \notin Contents(SubSeq(T.state.messages, Len(T.before) + 1,
                                                                Len(T.state.messages)))
                  /\ T.pc = "done" => T.result = [kind |-> "text", text |-> EscalationText]

\* the third consecutive unsatisfied turn of a topic has returned the message of
\* the escalation handler, after two follow-up questions
C1_Witness ==
    \E t \in Slots :
        LET T == turns[t] IN
        /\ T.pc = "done"
        /\ T.chain.n = 3
        /\ T.result.text = EscalationText
        /\ Len(T.before) = 4
        /\ T.before[2].content = T.before[4].content

\* C2: the routing node and a handler run only in a turn whose requirement check
\* reported nothing missing: missing_requirements is empty in every state of a turn
\* that is at or past routing or response generation, and no handler is invoked in
\* a turn whose requirement check reported a missing field
C2_RequirementsBeforeRouting ==
    \A t \in Slots :
        LET T == turns[t] IN
        /\ (\/ T.pc \in {"route", "execute_handler", "generate_response", "score_confidence", "escalate"}
            \/ \E n \in {"route", "execute_handler", "generate_response", "score_confidence", "escalate"} :
                  InSeq(n, T.path))
              => T.state.missing_requirements = <<>>
        /\ (InSeq("check_requirements", T.path) /\ T.state.missing_requirements # <<>>)
              => /\ T.handled = <<>>
                 /\ T.generated = <<>>
                 /\ Ended(T)
                 /\ Last(T.path) = "check_requirements"

\* a handler has run after a requirement check that consulted the oracle and found
\* nothing missing
C2_Witness ==
    \E t \in Slots :
        LET T == turns[t] IN
        /\ T.pc = "done"
        /\ T.path = <<"classify", "check_requirements", "route", "execute_handler">>
        /\ T.state.category = "BillingInquiry"
        /\ Len(T.handled) = 1
        /\ T.calls >= 2

\* C3: in every turn in which confidence scoring sets needs_escalation, the
\* escalate node replaces the generated draft by the messages of the escalation
\* handler: the draft is neither in the transcript the turn leaves behind nor the
\* text chat returns
C3_NoDraftLeakage ==
    \A t \in Slots :
        LET T == turns[t] IN
        (InSeq("score_confidence", T.path) /\ T.state.needs_escalation) =>
            /\ T.pc \in {"escalate", "end", "done"}
            /\ Ended(T) =>
                  /\ Last(T.path) = "escalate"
                  /\ T.state.messages = T.before \o <<UserMessage(T)>> \o handle_low_confidence(T.state)
                  /\ T.generated[1] \notin Contents(SubSeq(T.state.messages, Len(T.before) + 1,
                                                            Len(T.state.messages)))
                  /\ store[T.user].messages = T.state.messages
            /\ T.pc = "done" =>
                  /\ T.result = [kind |-> "text", text |-> EscalationText]
                  /\ T.result.text # T.generated[1]

\* a turn whose draft scored below the threshold has returned the escalation message
C3_Witness ==
    \E t \in Slots :
        LET T == turns[t] IN
        /\ T.pc = "done"
        /\ InSeq("escalate", T.path)
        /\ "generate" \notin T.failed
        /\ Len(T.generated[1]) = 69
        /\ T.result.text = EscalationText

\* the statement of C4 for every turn whose classified category has a registered
\* handler, whatever the category and whatever the requirement check reported
C4_AnyRegisteredCategory ==
    \A t \in Slots :
        LET T == turns[t] IN
        (InSeq("classify", T.path) /\ T.state.category \in handlers) =>
            /\ ~InSeq("score_confidence", T.path)
            /\ T.escalations = 0
            /\ (Ended(T) /\ T.handled # <<>>) =>
                  T.state.messages = T.before \o <<UserMessage(T)>> \o T.handled[1].messages

\* C4: in a turn whose classified category is not "default", has a registered
\* handler and passed its requirement check, the handler is invoked, neither
\* response generation nor score_confidence nor any escalation runs, and the
\* messages the handler returns are the final messages of the turn
C4_HandlerTrust ==
    \A t \in Slots :
        LET T == turns[t] IN
        (/\ InSeq("check_requirements", T.path)
         /\ T.state.category \in handlers \ {"default"}
         /\ T.state.missing_requirements = <<>>) =>
            /\ T.pc \in {"route", "execute_handler", "end", "done"}
            /\ T.generated = <<>>
            /\ ~InSeq("score_confidence", T.path)
            /\ T.escalations = 0
            /\ Ended(T) =>
                  /\ T.path = <<"classify", "check_requirements", "route", "execute_handler">>
                  /\ Len(T.handled) = 1
                  /\ T.state.messages = T.before \o <<UserMessage(T)>> \o T.handled[1].messages

\* a handler has returned a message short enough to be escalated had it been
\* scored, and chat has returned it
C4_Witness ==
    \E t \in Slots :
        LET T == turns[t] IN
        /\ T.pc = "done"
        /\ T.state.category \in handlers
        /\ T.handled = <<HandlerReturn(<<Message("assistant", "Ticket created.")>>)>>
        /\ T.result = [kind |-> "text", text |-> "Ticket created."]
        /\ Len(T.result.text) < confidence_threshold

\* C5: a step of a chat call of one user changes the stored state of no other
\* user, and the call starts from the stored state of its own user_id alone,
\* also when turns of different users are interleaved
C5_PerUserIsolation ==
    [][\A t \in Slots :
          turns'[t] # turns[t] =>
              /\ \A v \in Users \ {turns'[t].user} : store'[v] = store[v]
              /\ (Free(t) /\ turns'[t].pc = "invoke") =>
                    /\ turns'[t].before = store[turns'[t].user].messages
                    /\ turns'[t].state =
                          [store[turns'[t].user] EXCEPT !.messages = Append(@, UserMessage(turns'[t]))]
      ]_vars

\* turns of the two users are in flight at once, past classification, and each
\* stored state holds the transcript of its own user's turn
C5_Witness ==
    /\ turns[1].user # turns[2].user
    /\ \A t \in Slots :
          /\ turns[t].pc \in {"check_requirements", "route", "execute_handler",
                              "generate_response", "score_confidence", "escalate"}
          /\ store[turns[t].user] = turns[t].state
    /\ store["alice"] # store["bob"]

\* C6: the classify node clears missing_requirements in every turn, and it resets
\* the attempt counters to the empty map exactly when the continuity detector
\* reports a new topic, leaving them as they were otherwise, whatever the
\* category the classification yields
C6_ResetRule ==
    [][\A t \in Slots :
          (turns[t].pc = "classify" /\ turns'[t].pc # "classify") =>
              LET pre == turns[t].state
                  post == turns'[t].state
              IN  /\ post.missing_requirements = <<>>
                  /\ turns'[t].newTopic => post.requirement_attempts = EmptyAttempts
                  /\ ~turns'[t].newTopic => post.requirement_attempts = pre.requirement_attempts
                  /\ store'[turns[t].user] = post
      ]_vars

\* the classify node has kept the counters of a topic that continues, the
\* follow-up question of the turn before being the last stored message
C6_Witness ==
    \E t \in Slots :
        LET T == turns[t] IN
        /\ T.path = <<"classify">>
        /\ T.newTopic = FALSE
        /\ ~T.readFailed
        /\ T.state.requirement_attempts # EmptyAttempts
        /\ T.state.missing_requirements = <<>>
        /\ T.before # <<>>
        /\ Last(T.before).content =
               generate_missing_requirements_response("BillingInquiry", <<"account_number">>)

IsBlank(s) == \A i \in 1..Len(s) : CharAt(s, i) \in {" ", "\t", "\n"}

\* C7: a chat call whose message or user id is empty or whitespace-only raises
\* before any side effect: no node has run, no oracle was consulted, no stored
\* state, handler table or transcript has changed; every other call is accepted
C7_ValidationFirst ==
    [][\A t \in Slots :
          (Free(t) /\ turns'[t] # turns[t]) =>
              IF IsBlank(turns'[t].args[1]) \/ IsBlank(turns'[t].args[2])
              THEN /\ turns'[t].pc = "done"
                   /\ turns'[t].result.kind = "raise"
                   /\ turns'[t].path = <<>>
                   /\ turns'[t].calls = 0
                   /\ turns'[t].state = DefaultState
                   /\ UNCHANGED <<store, chainOf, handlers, budget>>
              ELSE /\ turns'[t].pc = "invoke"
                   /\ turns'[t].result.kind = "none"
      ]_vars

\* a call with a whitespace-only user id has been rejected while the user's
\* thread holds an earlier turn
C7_Witness ==
    \E t \in Slots :
        LET T == turns[t] IN
        /\ T.pc = "done"
        /\ T.result.kind = "raise"
        /\ T.args = <<"hi", " ">>
        /\ store["alice"].messages # <<>>

HandlerRaised(T) == T.handled # <<>> /\ Last(T.handled).raised

Contains(s, sub) == \E i \in 1..(Len(s) - Len(sub) + 1) : SubSeq(s, i, i + Len(sub) - 1) = sub

\* C9: when the oracle call of response generation fails, the text chat returns
\* is one of its fixed apologies, and the detail of the error is in no message of
\* the transcript and not in the returned text
C9_NeutralApology ==
    \A t \in Slots :
        LET T == turns[t] IN
        (T.pc = "done" /\ "generate" \in T.failed) =>
            /\ T.result.text \in {WorkflowErrorText, NoResponseText}
            /\ \A d \in ErrorDetails :
                  /\ ~Contains(T.result.text, d)
                  /\ \A c \in Contents(T.state.messages) \cup Contents(store[T.user].messages) :
                        ~Contains(c, d)

\* C10: a chat call with valid arguments returns a text whichever of the oracle
\* calls of its turn fail: a failed continuity call counts as a continuation, a
\* failed classification as "default", a failed requirement check as every field
\* missing, a failed generation still yields a message that is scored, and none
\* of these failures reaches the error path of chat
C10_OracleFailuresNeverRaise ==
    \A t \in Slots :
        LET T == turns[t] IN
        (T.pc = "done" /\ ~IsBlank(T.args[1]) /\ ~IsBlank(T.args[2])) =>
            /\ T.result.kind = "text"
            /\ ~HandlerRaised(T) => T.result.text # WorkflowErrorText
            /\ "continuity" \in T.failed => T.newTopic = FALSE
            /\ "classify" \in T.failed =>
                  (T.state.category = "default" /\ ~InSeq("check_requirements", T.path))
            /\ "requirements" \in T.failed =>
                  /\ Last(T.path) = "check_requirements"
                  /\ T.state.missing_requirements = FindRequirement(requirements, T.state.category)[1].required_fields
            /\ "generate" \in T.failed => InSeq("score_confidence", T.path)

\* the continuity call, the classification call and the generation call of one
\* turn have all failed, and chat has returned a text
C10_Witness ==
    \E t \in Slots :
        LET T == turns[t] IN
        /\ T.pc = "done"
        /\ T.failed = {"continuity", "classify", "generate"}
        /\ T.result.kind = "text"

Range(seq) == {seq[i] : i \in 1..Len(seq)}

\* the positions of the declared categories the reply names, whatever the case
NamedBy(reply, cats) ==
    {i \in 1..Len(cats) : reply.ok /\ Lower(cats[i]) = Lower(Strip(reply.text))}

\* C11: for every category list, and every reply or failure of the oracle, the
\* classifier returns the first declared category that equals the trimmed reply
\* up to case, spelled as declared, and "default" when there is none or the call
\* failed; it returns no other string
C11_ClassificationClosure ==
    probe.fn = "classify" =>
        LET named == NamedBy(probe.reply, categories) IN
        /\ probe.out \in Range(categories) \cup {"default"}
        /\ named # {} => probe.out = categories[CHOOSE i \in named : \A j \in named : i <= j]
        /\ named = {} => probe.out = "default"

\* a reply in lower case with blanks around it has been matched to the declared
\* spelling of the second of two categories
C11_Witness ==
    /\ probe.fn = "classify"
    /\ categories = <<"BillingInquiry", "General">>
    /\ probe.reply = Reply("GENERAL\n")
    /\ probe.out = "General"

\* the fields the table declares for a category: those of its first entry
DeclaredFields(reqs, category) ==
    LET at == {i \in 1..Len(reqs) : reqs[i].category = category}
    IN  IF at = {} THEN {}
        ELSE Range(reqs[CHOOSE i \in at : \A j \in at : i <= j].required_fields)

\* C12: for every requirement table, category and reply or failure of the oracle,
\* every name in the missing list the requirement checker returns is a field
\* declared for the category; of the names in a reply exactly the declared ones
\* are kept, the invented and the misspelled ones are dropped
C12_RequirementValidity ==
    probe.fn = "check" =>
        LET declared == DeclaredFields(requirements, probe.category)
            named == {Strip(part) : part \in Range(SplitComma(Strip(probe.reply.text)))}
        IN  /\ Range(probe.out.missing) \subseteq declared
            /\ (declared # {} /\ probe.reply.ok /\ Upper(Strip(probe.reply.text)) # "NONE") =>
                  Range(probe.out.missing) = declared \cap named

\* of the two names of a reply the declared one has been kept and the misspelled
\* one dropped
C12_Witness ==
    /\ probe.fn = "check"
    /\ probe.category = "BillingInquiry"
    /\ DeclaredFields(requirements, "BillingInquiry") = {"account_number", "phone"}
    /\ probe.reply = Reply("account number, phone")
    /\ probe.out = [met |-> FALSE, missing |-> <<"phone">>]

\* the count kept under a key of the attempt counters, 0 when there is none
AttemptsAt(attempts, key) == IF key \in DOMAIN attempts THEN attempts[key] ELSE 0

\* C13: when the oracle call of the requirement check fails for a category with
\* required fields, the check reports every declared field missing: the attempt
\* counter of the category goes up by one, the node appends one message, the
\* follow-up question or the message of the forced escalation, the turn ends
\* there, and neither a handler nor response generation runs in that turn
C13_CheckerFailSafe ==
    [][\A t \in Slots :
          /\ "requirements" \in turns'[t].failed =>
                /\ turns'[t].pc \in {"end", "done"}
                /\ Last(turns'[t].path) = "check_requirements"
                /\ turns'[t].handled = <<>>
                /\ turns'[t].generated = <<>>
          /\ (turns[t].pc = "check_requirements" /\ "requirements" \in turns'[t].failed) =>
                LET pre == turns[t].state
                    post == turns'[t].state
                    key == SessionKey("check_requirements", pre.category)
                IN  /\ DeclaredFields(requirements, pre.category) # {}
                    /\ Range(post.missing_requirements) = DeclaredFields(requirements, pre.category)
                    /\ AttemptsAt(post.requirement_attempts, key) = AttemptsAt(pre.requirement_attempts, key) + 1
                    /\ Len(post.messages) = Len(pre.messages) + 1
                    /\ Last(post.messages) \in
                          {FollowUp(turns'[t]), Message("assistant", EscalationText)}
                    /\ Last(post.messages) = Message("assistant", EscalationText)
                          <=> AttemptsAt(post.requirement_attempts, key) > 2
                    /\ store'[turns[t].user] = post
      ]_vars

\* the requirement check has failed in three turns in a row, and the third has
\* returned the message of the forced escalation
C13_Witness ==
    \E t \in Slots :
        LET T == turns[t] IN
        /\ T.pc = "done"
        /\ "requirements" \in T.failed
        /\ T.chain.n = 3
        /\ T.state.requirement_attempts[SessionKey("check_requirements", "BillingInquiry")] = 3
        /\ T.result.text = EscalationText

\* the positions of the assistant messages of a transcript
AssistantAt(messages) == {i \in 1..Len(messages) : messages[i].role = "assistant"}

\* C14: the text a chat call returns after its workflow has run to the end is the
\* content of the last assistant message of the turn's final state, never the
\* content of a user message, also when a handler returns no message
C14_LastAssistantReturned ==
    \A t \in Slots :
        LET T == turns[t]
            at == AssistantAt(T.state.messages)
        IN  (T.pc = "done" /\ T.path # <<>> /\ ~HandlerRaised(T)) =>
                /\ at # {}
                /\ T.result.text = T.state.messages[CHOOSE i \in at : \A j \in at : j <= i].content
                /\ T.result.text # UserMessage(T).content

\* the turn's input and, unless a handler raised, its final state are the stored
\* state of the user
Persisted(T) ==
    /\ Len(store[T.user].messages) > Len(T.before)
    /\ store[T.user].messages[Len(T.before) + 1] = UserMessage(T)
    /\ SubSeq(store[T.user].messages, 1, Len(T.before)) = T.before
    /\ ~HandlerRaised(T) => store[T.user] = T.state

\* C15: a chat call with valid arguments returns a non-empty text and leaves the
\* user's state updated and persisted, on every path of the turn
C15_Postcondition ==
    \A t \in Slots :
        LET T == turns[t] IN
        (T.pc = "done" /\ T.path # <<>>) =>
            /\ T.result.kind = "text"
            /\ T.result.text # ""
            /\ Persisted(T)

IsPrefix(a, b) == Len(a) <= Len(b) /\ SubSeq(b, 1, Len(a)) = a

\* C16: the stored transcript of a user only grows: every step leaves the stored
\* messages a prefix of the new ones, except the escalate step, which removes the
\* last message, the draft generated in the same turn, and the first write of a
\* turn whose state read failed; when a turn whose read succeeded returns, the
\* messages stored before it followed by its one user message are a prefix of
\* the stored messages, and no other user message was added
C16_AppendOnly ==
    [][/\ \A u \in Users :
             \/ IsPrefix(store[u].messages, store'[u].messages)
             \/ \E t \in Slots :
                   /\ turns[t].user = u
                   /\ turns[t].pc = "escalate"
                   /\ turns'[t].pc = "end"
                   /\ Len(store[u].messages) = Len(turns[t].before) + 2
                   /\ Last(store[u].messages) = Message("assistant", turns[t].generated[1])
                   /\ IsPrefix(SubSeq(store[u].messages, 1, Len(store[u].messages) - 1),
                               store'[u].messages)
             \/ \E t \in Slots :
                   turns[t].user = u /\ turns[t].pc = "invoke" /\ turns[t].readFailed
       /\ \A t \in Slots :
             (turns[t].pc = "end" /\ turns'[t].pc = "done" /\ ~turns[t].readFailed) =>
                 LET T == turns[t]
                     after == store'[T.user].messages
                 IN  /\ IsPrefix(T.before \o <<UserMessage(T)>>, after)
                     /\ \A i \in (Len(T.before) + 2)..Len(after) : after[i].role # "user"
      ]_vars

\* the second turn of a thread has replaced its draft by the escalation message,
\* and the messages of the first turn are still the head of the stored transcript
C16_Witness ==
    \E t \in Slots :
        LET T == turns[t] IN
        /\ T.pc = "done"
        /\ ~T.readFailed
        /\ Len(T.before) >= 2
        /\ InSeq("escalate", T.path)
        /\ store[T.user].messages = T.before \o <<UserMessage(T), Message("assistant", EscalationText)>>

\* C17: a requirement check that reports a missing field and whose incremented
\* attempt count is at most 2 ends the turn: exactly one assistant message, the
\* follow-up question, is appended after the user's message, and the turn has no
\* routing, no handler invocation, no generation, no confidence scoring and no
\* escalation
C17_FollowUpIsTerminal ==
    \A t \in Slots :
        LET T == turns[t] IN
        (/\ InSeq("check_requirements", T.path)
         /\ T.state.missing_requirements # <<>>
         /\ AttemptsAt(T.state.requirement_attempts,
                       SessionKey("check_requirements", T.state.category)) <= 2) =>
            /\ Ended(T)
            /\ T.path = <<"classify", "check_requirements">>
            /\ T.state.messages = T.before \o <<UserMessage(T), FollowUp(T)>>
            /\ T.handled = <<>>
            /\ T.generated = <<>>
            /\ T.escalations = 0
            /\ store[T.user] = T.state
            /\ T.pc = "done" => T.result = [kind |-> "text", text |-> FollowUp(T).content]

\* the second unsatisfied check of a category has ended its turn with the
\* follow-up question
C17_Witness ==
    \E t \in Slots :
        LET T == turns[t] IN
        /\ T.pc = "done"
        /\ T.path = <<"classify", "check_requirements">>
        /\ AttemptsAt(T.state.requirement_attempts,
                      SessionKey("check_requirements", "BillingInquiry")) = 2
        /\ T.result.text = FollowUp(T).content
        /\ Len(T.state.messages) = Len(T.before) + 2

\* C18: when the agent declares no categories, every turn has the category
\* "default" without a call of the classification oracle and goes from classify
\* straight to response generation and confidence scoring; the requirement
\* check, the routing node and the handlers never run, whatever is registered
C18_NoCategories ==
    \A t \in Slots :
        LET T == turns[t] IN
        (categories = <<>> /\ InSeq("classify", T.path)) =>
            /\ T.state.category = "default"
            /\ "classify" \notin T.failed
            /\ T.calls = (IF ContinuityConsultsOracle(T.before \o <<UserMessage(T)>>) THEN 1 ELSE 0)
                             + Len(T.generated)
            /\ IsPrefix(T.path, <<"classify", "generate_response", "score_confidence", "escalate">>)
            /\ T.pc \in {"generate_response", "score_confidence", "escalate", "end", "done"}
            /\ Ended(T) => InSeq("score_confidence", T.path)
            /\ T.handled = <<>>
            /\ T.state.missing_requirements = <<>>

\* with a handler registered under "default", the second turn of an agent
\* without categories has kept its generated response
C18_Witness ==
    \E t \in Slots :
        LET T == turns[t] IN
        /\ categories = <<>>
        /\ "default" \in handlers
        /\ T.pc = "done"
        /\ Len(T.before) >= 2
        /\ T.path = <<"classify", "generate_response", "score_confidence">>
        /\ T.result.text = T.generated[1]

\* two returned turns of one user that both read the stored state before either
\* of them wrote it
BothReadFirst ==
    /\ turns[1].pc = "done" /\ turns[2].pc = "done"
    /\ turns[1].path # <<>> /\ turns[2].path # <<>>
    /\ turns[1].user = turns[2].user
    /\ turns[1].before = turns[2].before

\* the stored state is the final state of one of the two turns, and of the two
\* user messages only that turn's is in it
OneTurnSurvives ==
    LET stored == store[turns[1].user]
        base == Len(turns[1].before)
    IN  /\ stored \in {turns[1].state, turns[2].state}
        /\ stored.messages[base + 1].role = "user"
        /\ \A i \in (base + 2)..Len(stored.messages) : stored.messages[i].role # "user"

\* C19: turns of one user are not serialized: the entry into the workflow and
\* every node that returns replace the whole stored state of the user with the
\* turn's own, whatever another turn has stored since the turn read it; when two turns of one
\* user have both read the stored state before either wrote, the state stored
\* after both is that of the turn that wrote last, without the user message and
\* the response of the other turn
C19_LastWriteWins ==
    [][/\ \A t \in Slots :
             (/\ turns[t].pc \notin {"idle", "end", "done"}
              /\ turns'[t] # turns[t]
              /\ ~HandlerRaised(turns'[t])) => store'[turns[t].user] = turns'[t].state
       /\ BothReadFirst' => OneTurnSurvives'
      ]_vars

\* two turns of one user have overlapped and returned different texts; the stored
\* transcript holds the message and the response of one of them only
C19_Witness ==
    /\ BothReadFirst
    /\ turns[1].result.text # turns[2].result.text
    /\ \E t \in Slots :
          /\ store[turns[t].user] = turns[3 - t].state
          /\ turns[t].result.text \notin Contents(store[turns[t].user].messages)
          /\ Len(store[turns[t].user].messages) = Len(turns[t].before) + 2
          /\ Len(turns[t].state.messages) = Len(turns[t].before) + 2

\* C20: when the read of the user's stored state fails, the chat call goes on
\* with a fresh state: it enters the workflow with the incoming user message as
\* the only message and every other field at its default, the turn counts as a
\* new topic with no earlier attempts, and chat returns a text
C20_ReadFailureFallback ==
    \A t \in Slots :
        LET T == turns[t] IN
        T.readFailed =>
            /\ T.pc # "idle"
            /\ T.before = <<>>
            /\ T.pc = "invoke" => T.state = [DefaultState EXCEPT !.messages = <<UserMessage(T)>>]
            /\ T.state.messages[1] = UserMessage(T)
            /\ \A i \in 2..Len(T.state.messages) : T.state.messages[i].role = "assistant"
            /\ T.path # <<>> => T.newTopic = TRUE
            /\ \A k \in DOMAIN T.state.requirement_attempts : T.state.requirement_attempts[k] = 1
            /\ T.pc = "done" => T.result.kind = "text"

\* a later turn of a user has lost its read and has returned a text; its
\* transcript starts with its own user message
C20_Witness ==
    \E t \in Slots :
        LET T == turns[t] IN
        /\ T.readFailed
        /\ T.pc = "done"
        /\ budget = MaxTurns - 2
        /\ T.result.kind = "text"
        /\ store[T.user].messages[1] = UserMessage(T)
        /\ Len(store[T.user].messages) = 2

\* C21: whatever calls came before, a registration with a non-empty name and a
\* callable succeeds exactly when the name is not registered at that moment and
\* then adds the name; on a registered name it raises the "already registered"
\* error and leaves the table alone; an unregistration removes the name, so that
\* the next registration of that name succeeds
C21_HandlerTableProtocol ==
    [][/\ (probe'.fn = "register" /\ probe'.category # "" /\ probe'.out.callable) =>
              /\ probe'.out.raised <=> probe'.category \in handlers
              /\ probe'.category \in handlers =>
                     /\ Contains(probe'.out.error, "already registered")
                     /\ handlers' = handlers
              /\ probe'.category \notin handlers =>
                     /\ handlers' = handlers \cup {probe'.category}
                     /\ probe'.out.error = ""
       /\ probe'.fn = "unregister" =>
              /\ handlers' = handlers \ {probe'.category}
              /\ probe'.category # "" => ~register_handler(handlers', probe'.category, TRUE).raised
      ]_vars

\* a second registration of a registered name has failed with the error, next to
\* another registered name
C21_Witness ==
    /\ probe.fn = "register"
    /\ probe.out.callable
    /\ probe.out.raised
    /\ Contains(probe.out.error, "already registered")
    /\ probe.category \in handlers
    /\ Cardinality(handlers) = 2

\* the positions of the user messages among the three messages before the current one
WindowUsers(messages) ==
    {i \in 1..(Len(messages) - 1) : i >= Len(messages) - 3 /\ messages[i].role = "user"}

\* C22: the continuity detector answers "new topic" without an oracle call when
\* the conversation has at most one message or its lookback window holds no user
\* message; otherwise it makes the call and answers "new topic" only for a reply
\* that reads NEW once trimmed and upper-cased, and "continuation" for every
\* other reply and for every failure of the call
C22_ContinuityDefaults ==
    probe.fn = "continuity" =>
        LET m == probe.messages IN
        /\ (Len(m) <= 1 \/ WindowUsers(m) = {}) =>
               /\ ~probe.out.consulted
               /\ probe.reply = NoCall
               /\ probe.out.new
        /\ (Len(m) > 1 /\ WindowUsers(m) # {}) =>
               /\ probe.out.consulted
               /\ ~probe.reply.ok => ~probe.out.new
               /\ probe.reply.ok =>
                      (probe.out.new <=> Strip(probe.reply.text) \in {"NEW", "new"})

\* the oracle was consulted about a conversation with an earlier user message
\* and failed: the detector has answered "continuation"
C22_Witness ==
    /\ probe.fn = "continuity"
    /\ probe.out.consulted
    /\ ~probe.reply.ok
    /\ ~probe.out.new
    /\ Len(probe.messages) = 3

\* C23: once a generated response is scored, the confidence is its length in
\* hundredths and escalation is needed exactly when the length is below 70: a
\* response of 70 characters or more ends the turn as its last message and as
\* the text chat returns; a shorter one, the empty one included (confidence 0),
\* goes to the escalate node and the escalation text takes its place
C23_ThresholdBoundary ==
    \A t \in Slots :
        LET T == turns[t] IN
        InSeq("score_confidence", T.path) =>
            LET draft == T.generated[Len(T.generated)] IN
            /\ T.state.confidence = Len(draft)
            /\ T.state.needs_escalation <=> Len(draft) < 70
            /\ draft = "" => T.state.confidence = 0 /\ T.state.needs_escalation
            /\ Len(draft) >= 70 =>
                   /\ Ended(T)
                   /\ Last(T.path) = "score_confidence"
                   /\ T.escalations = 0
                   /\ Last(T.state.messages) = Message("assistant", draft)
                   /\ T.pc = "done" => T.result = [kind |-> "text", text |-> draft]
            /\ Len(draft) < 70 =>
                   /\ T.pc \in {"escalate", "end", "done"}
                   /\ Ended(T) =>
                          /\ Last(T.path) = "escalate"
                          /\ T.escalations = 1
                          /\ T.state.messages =
                                 T.before \o <<UserMessage(T), Message("assistant", EscalationText)>>
                   /\ T.pc = "done" => T.result = [kind |-> "text", text |-> EscalationText]

\* a response of exactly 70 characters was generated, scored 0.70 and returned
C23_Witness ==
    \E t \in Slots :
        LET T == turns[t] IN
        /\ T.pc = "done"
        /\ T.generated # <<>>
        /\ Len(T.generated[1]) = 70
        /\ T.state.confidence = confidence_threshold
        /\ ~T.state.needs_escalation
        /\ T.result.text = T.generated[1]

\* C24: in the turn whose requirement check is unsatisfied and raises the attempt
\* count of the category above 2, the escalation is forced at once: the flag
\* needs_escalation is set, the escalation message follows the user's message,
\* which is kept, no follow-up question is appended, and the turn ends after the
\* requirement check, with no handler called, nothing generated and nothing scored
C24_ForcedEscalation ==
    \A t \in Slots :
        LET T == turns[t]
            key == SessionKey("check_requirements", T.state.category)
        IN
        (/\ InSeq("check_requirements", T.path)
         /\ T.state.missing_requirements # <<>>
         /\ AttemptsAt(T.state.requirement_attempts, key) > 2) =>
            /\ T.state.needs_escalation
            /\ T.state.messages = T.before \o <<UserMessage(T), Message("assistant", EscalationText)>>
            /\ FollowUp(T) \notin Range(SubSeq(T.state.messages, Len(T.before) + 1, Len(T.state.messages)))
            /\ T.path = <<"classify", "check_requirements">>
            /\ Ended(T)
            /\ T.handled = <<>>
            /\ T.generated = <<>>
            /\ ~InSeq("score_confidence", T.path)
            /\ T.escalations = 1
            /\ T.pc = "done" => T.result = [kind |-> "text", text |-> EscalationText]

\* the third unsatisfied check of a topic has ended its turn with the escalation
\* message after the user's message
C24_Witness ==
    \E t \in Slots :
        LET T == turns[t] IN
        /\ T.pc = "done"
        /\ T.path = <<"classify", "check_requirements">>
        /\ T.state.needs_escalation
        /\ T.escalations = 1
        /\ \E k \in DOMAIN T.state.requirement_attempts : T.state.requirement_attempts[k] = 3
        /\ Len(T.state.messages) = Len(T.before) + 2
        /\ T.state.messages[Len(T.before) + 1] = UserMessage(T)

\* C25: whatever the requirement checker returns, its flag is true exactly when
\* its missing list is empty; a reply NONE in any case, and a reply all of whose
\* names are outside the fields declared for the category, both give (true,
\* empty), and with an empty list the edge after the requirement check leads to routing
C25_SatisfiedIffNothingMissing ==
    probe.fn = "check" =>
        LET declared == DeclaredFields(requirements, probe.category)
            named == {Strip(part) : part \in Range(SplitComma(Strip(probe.reply.text)))} \ {""}
            returned == [DefaultState EXCEPT !.category = probe.category,
                                             !.missing_requirements = probe.out.missing]
        IN  /\ probe.out.met <=> probe.out.missing = <<>>
            /\ (probe.reply.ok /\ Strip(probe.reply.text) \in {"NONE", "none"}) =>
                   probe.out = [met |-> TRUE, missing |-> <<>>]
            /\ (probe.reply.ok /\ named \cap declared = {}) =>
                   probe.out = [met |-> TRUE, missing |-> <<>>]
            /\ requirements_met(returned) = "route" <=> probe.out.met

\* the oracle has named only a field the category does not declare, and the
\* checker has reported the requirements satisfied
C25_Witness ==
    /\ probe.fn = "check"
    /\ probe.category = "BillingInquiry"
    /\ DeclaredFields(requirements, "BillingInquiry") = {"account_number", "phone"}
    /\ probe.reply = Reply("ssn")
    /\ probe.out = [met |-> TRUE, missing |-> <<>>]

\* the positions of the user messages before the current one
PriorUsers(messages) == {i \in 1..(Len(messages) - 1) : messages[i].role = "user"}

\* the statement of C26: whenever a user message precedes the current one, the
\* detector consults the oracle, whatever lies in between
C26_AnyPriorUserMessage ==
    (probe.fn = "continuity" /\ PriorUsers(probe.messages) # {}) => probe.out.consulted

\* C26: the lookback window of the continuity detector is the three messages
\* before the current one, whatever their roles, and the detector consults the
\* oracle exactly when one of these is a user message: a user message further
\* back does not count, and with none in the window the turn is a new topic
C26_LastThreeMessages ==
    probe.fn = "continuity" =>
        LET m == probe.messages
            window == {i \in 1..(Len(m) - 1) : i >= Len(m) - 3}
        IN  /\ probe.out.consulted <=> \E i \in window : m[i].role = "user"
            /\ ~probe.out.consulted => probe.out.new
            /\ (\A i \in window : m[i].role # "user") => probe.out.new

\* the three messages a handler returned lie between the earlier user message
\* and the current one: the oracle was not consulted and the turn is a new topic
C26_Witness ==
    /\ probe.fn = "continuity"
    /\ Len(probe.messages) = 5
    /\ PriorUsers(probe.messages) = {1}
    /\ ~probe.out.consulted
    /\ probe.out.new

\* the statement of C27: with no categories declared, the one oracle call of a
\* turn, the first and every later one, is the call of response generation; the
\* continuity detector, the classifier and the requirement check make none
C27_OnlyGenerationCall ==
    \A t \in Slots :
        LET T == turns[t] IN
        (categories = <<>> /\ InSeq("classify", T.path)) =>
            /\ T.calls = Len(T.generated)
            /\ T.calls <= 1
            /\ T.failed \subseteq {"generate"}
            /\ IsPrefix(T.path, <<"classify", "generate_response", "score_confidence", "escalate">>)

NodeNames ==
    {"classify", "check_requirements", "route", "execute_handler",
     "generate_response", "score_confidence", "escalate"}

\* the oracle calls a node may make, by the name they are recorded under
SitesOf(node) ==
    CASE node = "classify" -> {"continuity", "classify"}
      [] node = "check_requirements" -> {"requirements"}
      [] node = "generate_response" -> {"generate"}
      [] OTHER -> {}

\* C28: no node of a turn runs twice, and a step of a turn issues exactly these
\* oracle calls, failed or not: in classify one by the continuity detector when
\* a user message is among the three messages before the current one, and one
\* by the classifier when categories are declared, none when the list is empty;
\* in check_requirements one when the category has declared fields, none when
\* it is absent from the table or has no fields; in generate_response one; in
\* every other step none; a failure is one of these calls and is not repeated,
\* and a turn issues at most 4 calls
C28_BoundedOracleUse ==
    [][\A t \in Slots :
          LET T == turns[t]
              N == turns'[t]
              issued == N.calls - T.calls
              m == T.state.messages
          IN  (T.pc \notin {"idle", "done"} /\ N # T) =>
                  /\ T.pc \in NodeNames => ~InSeq(T.pc, T.path) /\ N.path = Append(T.path, T.pc)
                  /\ T.pc = "classify" =>
                         issued = (IF WindowUsers(m) # {} THEN 1 ELSE 0)
                                      + (IF categories # <<>> THEN 1 ELSE 0)
                  /\ T.pc = "check_requirements" =>
                         issued = (IF DeclaredFields(requirements, T.state.category) # {} THEN 1 ELSE 0)
                  /\ T.pc = "generate_response" => issued = 1
                  /\ T.pc \notin {"classify", "check_requirements", "generate_response"} => issued = 0
                  /\ T.failed \subseteq N.failed
                  /\ (N.failed \ T.failed) \subseteq SitesOf(T.pc)
                  /\ Cardinality(N.failed \ T.failed) <= issued
                  /\ N.calls <= 4
      ]_vars

\* a turn has issued four oracle calls, one by each of the four callers, two of
\* which failed, and has returned
C28_Witness ==
    \E t \in Slots :
        LET T == turns[t] IN
        /\ T.pc = "done"
        /\ T.calls = 4
        /\ T.path = <<"classify", "check_requirements", "route", "generate_response", "score_confidence">>
        /\ {"continuity", "generate"} \subseteq T.failed

\* the values workflow_step may hold when a node is entered
StepValues == NodeNames \cup {None}

\* what the checker can report about a category
CheckerResults(category) ==
    {[met |-> TRUE, missing |-> <<>>]} \cup
    {[met |-> FALSE, missing |-> requirements[i].required_fields] :
         i \in {k \in 1..Len(requirements) : requirements[k].category = category}}

\* a turn would go on in the same way had it found the step name w in its state:
\* for every result of the oracle calls and of the handler, the node it is at
\* returns the same state and leaves by the same edge
SameWithStep(T, w) ==
    LET s == T.state
        v == [s EXCEPT !.workflow_step = w]
    IN  /\ T.pc = "classify" =>
               \A isNew \in BOOLEAN, category \in Range(categories) \cup {"default"} :
                   /\ classify_node(v, isNew, category) = classify_node(s, isNew, category)
                   /\ should_check_requirements(classify_node(v, isNew, category))
                          = should_check_requirements(classify_node(s, isNew, category))
        /\ T.pc = "check_requirements" =>
               \A checked \in CheckerResults(s.category) :
                   /\ check_requirements_node(v, checked) = check_requirements_node(s, checked)
                   /\ ForcesEscalation(v, checked) = ForcesEscalation(s, checked)
                   /\ requirements_met(check_requirements_node(v, checked))
                          = requirements_met(check_requirements_node(s, checked))
        /\ T.pc = "route" =>
               /\ route_node(v) = route_node(s)
               /\ has_custom_handler(route_node(v)) = has_custom_handler(route_node(s))
        /\ T.pc = "execute_handler" =>
               \A outcome \in HandlerOutcomes :
                   execute_handler_node(v, outcome.messages) = execute_handler_node(s, outcome.messages)
        /\ T.pc = "generate_response" =>
               \A reply \in GenerateReplies :
                   generate_response_node(v, generate_response(reply))
                       = generate_response_node(s, generate_response(reply))
        /\ T.pc = "score_confidence" =>
               /\ score_confidence_node(v) = score_confidence_node(s)
               /\ confidence_check(score_confidence_node(v)) = confidence_check(score_confidence_node(s))
        /\ T.pc = "escalate" => escalate_node(v) = escalate_node(s)
        /\ T.pc = "end" => chat_returns(v.messages) = chat_returns(s.messages)

\* C29: the step name stored in a state decides nothing: the node a turn is at
\* returns the same state, workflow_step included, and leaves by the same edge
\* whatever step name it found, under the same oracle answers and handler
\* results, and every node that returns has written its own name over it; two
\* runs of a turn that differ only in the stored step name are therefore in the
\* same state after the classify node, take the same path and end with the same
\* messages, category, missing fields, attempt counters, confidence, escalation
\* flag and returned text
C29_StepNameDecidesNothing ==
    [][\A t \in Slots :
          LET T == turns[t]
              N == turns'[t]
          IN  (T.pc \in NodeNames \cup {"end"} /\ N # T) =>
                  /\ \A w \in StepValues : SameWithStep(T, w)
                  /\ (T.pc \in NodeNames /\ ~HandlerRaised(N)) => N.state.workflow_step = T.pc
      ]_vars

\* a turn enters the classify node with the step name and the attempt counter
\* the requirement check of the turn before left in the state
C29_Witness ==
    \E t \in Slots :
        LET T == turns[t] IN
        /\ T.pc = "classify"
        /\ T.before # <<>>
        /\ T.state.workflow_step = "check_requirements"
        /\ AttemptsAt(T.state.requirement_attempts, SessionKey("check_requirements", T.state.category)) = 1

\* the nodes in the order of the workflow graph
NodeOrder ==
    <<"classify", "check_requirements", "route", "execute_handler",
      "generate_response", "score_confidence", "escalate">>

Position(node) == CHOOSE i \in 1..Len(NodeOrder) : NodeOrder[i] = node

\* the number of steps a turn at this point has left at most
Rank(pc) ==
    CASE pc = "invoke" -> 9
      [] pc \in NodeNames -> 9 - Position(pc)
      [] pc = "end" -> 1
      [] OTHER -> 0

\* a turn in flight is at a node of the graph, at its entry or at its end, and the
\* node has an outcome to go on with, whether the oracle or the handler it calls
\* answers or fails
CanGoOn(T) ==
    /\ T.pc \in NodeNames \cup {"idle", "invoke", "end", "done"}
    /\ T.pc = "classify" => ClassifyOutcomes(T.state.messages) # {}
    /\ T.pc = "check_requirements" => CheckOutcomes(T.state.category) # {}
    /\ T.pc = "execute_handler" => HandlerOutcomes # {}
    /\ T.pc = "generate_response" => GenerateReplies # {}

\* C30: a turn in flight can go on, and every step it takes brings it strictly
\* nearer to its end: the nodes it runs are in the order classify,
\* check_requirements, route, execute_handler, generate_response,
\* score_confidence, escalate, each at most once and none before an earlier
\* one, so that after at most nine steps the chat call has returned; it has its
\* one outcome exactly when it has returned, and the workflow has ended after
\* the requirement check, the handler, the scoring or the escalation
C30_EveryTurnTerminates ==
    [][\A t \in Slots :
          LET T == turns[t]
              N == turns'[t]
          IN  /\ CanGoOn(T) /\ CanGoOn(N)
              /\ (T.pc \notin {"idle", "done"} /\ N # T) =>
                     /\ Rank(N.pc) < Rank(T.pc)
                     /\ Len(N.path) + Rank(N.pc) <= 9
                     /\ T.pc \in NodeNames =>
                            /\ N.path = Append(T.path, T.pc)
                            /\ \A i \in 1..Len(T.path) : Position(T.path[i]) < Position(T.pc)
                     /\ T.pc \notin NodeNames => N.path = T.path
                     /\ T.result = NoResult
                     /\ N.pc = "done" <=> N.result # NoResult
                     /\ N.pc = "done" => N.result.kind = "text"
                     /\ N.pc = "end" =>
                            Last(N.path) \in {"check_requirements", "execute_handler",
                                              "score_confidence", "escalate"}
      ]_vars

\* a turn has run the six nodes of the longest path of the graph and returned
C30_Witness ==
    \E t \in Slots :
        LET T == turns[t] IN
        /\ T.pc = "done"
        /\ T.path = <<"classify", "check_requirements", "route",
                      "generate_response", "score_confidence", "escalate">>
        /\ T.result = [kind |-> "text", text |-> EscalationText]

\* the key the attempt counter of a declared category is stored under
KeyOf(category) == "check_requirements_" \o category \o "_requirements"

DeclaredKeys == {KeyOf(categories[i]) : i \in 1..Len(categories)}

\* C31: the attempt counters are kept per category and add up within a topic:
\* the classify step empties the whole mapping when the turn is judged a new
\* topic and leaves it alone otherwise; an unsatisfied requirement check adds 1
\* to the counter of the category of the turn and leaves every other counter
\* alone; a satisfied check and every other step leave all counters alone; the
\* next turn starts from the counters the turn before has stored; every
\* stored value is an integer of at least 1 under the key of a declared category
C31_CountersPerCategory ==
    [][\A t \in Slots :
          LET T == turns[t]
              N == turns'[t]
              old == T.state.requirement_attempts
              new == N.state.requirement_attempts
              key == KeyOf(N.state.category)
          IN  N # T =>
                  /\ (T.pc \in {"idle", "done"} /\ N.pc = "invoke") =>
                         new = store[N.user].requirement_attempts
                  /\ T.pc = "classify" =>
                         new = IF N.newTopic THEN EmptyAttempts ELSE old
                  /\ (T.pc = "check_requirements" /\ N.state.missing_requirements # <<>>) =>
                         /\ AttemptsAt(new, key) = AttemptsAt(old, key) + 1
                         /\ \A k \in (DOMAIN old \cup DOMAIN new) \ {key} :
                                AttemptsAt(new, k) = AttemptsAt(old, k)
                  /\ (T.pc = "check_requirements" /\ N.state.missing_requirements = <<>>) => new = old
                  /\ T.pc \in {"invoke", "route", "execute_handler", "generate_response",
                               "score_confidence", "escalate", "end"} => new = old
                  /\ DOMAIN new \subseteq DeclaredKeys
                  /\ \A k \in DOMAIN new : new[k] \in Nat /\ new[k] >= 1
                  /\ (T.pc \in NodeNames /\ ~HandlerRaised(N)) =>
                         store'[N.user].requirement_attempts = new
      ]_vars

\* in one topic two checks of one category and then one of the other were
\* unsatisfied: the first counter stands at 2 and the second at 1
C31_Witness ==
    \E t \in Slots :
        LET T == turns[t] IN
        /\ T.pc = "done"
        /\ T.state.category = "General"
        /\ T.state.requirement_attempts =
               [k \in {KeyOf("BillingInquiry"), KeyOf("General")} |->
                    IF k = KeyOf("BillingInquiry") THEN 2 ELSE 1]
        /\ store[T.user].requirement_attempts = T.state.requirement_attempts

\* C32: the forced escalation leaves the counter of the category above 2: the
\* unsatisfied check that takes it from 2 to 3 stores 3, and from then on every
\* unsatisfied check of that category adds 1 again and is force-escalated again,
\* with the escalation message after the user's message and no follow-up
\* question, whatever turns lie in between; a counter above 2 goes down only
\* when the classify step judges a turn a new topic and empties the mapping
C32_EscalatedAgain ==
    [][\A t \in Slots :
          LET T == turns[t]
              N == turns'[t]
              old == T.state.requirement_attempts
              new == N.state.requirement_attempts
              key == KeyOf(N.state.category)
          IN  N # T =>
                  /\ (T.pc = "check_requirements" /\ N.state.missing_requirements # <<>>
                          /\ AttemptsAt(old, key) >= 2) =>
                         /\ AttemptsAt(new, key) = AttemptsAt(old, key) + 1
                         /\ store'[N.user].requirement_attempts = new
                         /\ N.state.needs_escalation
                         /\ N.escalations = 1
                         /\ N.pc = "end"
                         /\ N.state.messages = T.state.messages \o <<Message("assistant", EscalationText)>>
                         /\ Last(T.state.messages) = UserMessage(T)
                         /\ FollowUp(N) # Last(N.state.messages)
                  /\ \A k \in DOMAIN old :
                         (old[k] > 2 /\ AttemptsAt(new, k) < old[k]) =>
                             /\ T.pc = "classify"
                             /\ N.newTopic = TRUE
                             /\ new = EmptyAttempts
                  /\ (T.pc \in {"idle", "done"} /\ N.pc = "invoke") =>
                         new = store[N.user].requirement_attempts
      ]_vars

\* the fourth unsatisfied check of a category in one topic has been escalated
\* like the third
C32_Witness ==
    \E t \in Slots :
        LET T == turns[t] IN
        /\ T.pc = "done"
        /\ T.state.category = "BillingInquiry"
        /\ T.state.missing_requirements # <<>>
        /\ AttemptsAt(T.state.requirement_attempts, KeyOf("BillingInquiry")) = 4
        /\ T.escalations = 1
        /\ T.result = [kind |-> "text", text |-> EscalationText]
        /\ Len(T.state.messages) = Len(T.before) + 2

\* C33: whenever the escalate node runs, the last message of the state is the
\* assistant message the generate node of the same turn appended, right after
\* the user's message of the turn; the node replaces that message and nothing
\* else, so that every user message of the state is still there afterwards
C33_EscalateReplacesDraftOnly ==
    [][\A t \in Slots :
          LET T == turns[t]
              N == turns'[t]
              m == T.state.messages
          IN  (T.pc = "escalate" /\ N # T) =>
                  /\ T.generated # <<>>
                  /\ Len(T.path) >= 2
                  /\ T.path[Len(T.path) - 1] = "generate_response"
                  /\ Last(T.path) = "score_confidence"
                  /\ Len(m) = Len(T.before) + 2
                  /\ m[Len(m)] = Message("assistant", Last(T.generated))
                  /\ m[Len(m) - 1] = UserMessage(T)
                  /\ SubSeq(N.state.messages, 1, Len(m) - 1) = SubSeq(m, 1, Len(m) - 1)
                  /\ \A i \in Len(m)..Len(N.state.messages) : N.state.messages[i].role # "user"
                  /\ UserMessagesOf(N.state.messages) = UserMessagesOf(m)
      ]_vars

\* the escalate node has replaced an empty draft in a later turn of a thread,
\* and the user's message of the turn is the last but one of the state
C33_Witness ==
    \E t \in Slots :
        LET T == turns[t] IN
        /\ T.pc = "end"
        /\ T.path # <<>>
        /\ Last(T.path) = "escalate"
        /\ T.generated = <<"">>
        /\ T.before # <<>>
        /\ T.state.messages = T.before \o <<UserMessage(T), Message("assistant", EscalationText)>>

\* C34: the flag needs_escalation a turn finds in the stored state decides
\* nothing: a turn reaches the escalate node only from score_confidence and
\* exactly when the response generated in the same turn is shorter than 70
\* characters, whatever the flag was before; the edges after classify, after the
\* requirement check and after route go as they would with the flag lowered,
\* and an escalation of a turn is either this one or the forced one of the
\* requirement check of the same turn
C34_StaleFlagDecidesNothing ==
    [][\A t \in Slots :
          LET T == turns[t]
              N == turns'[t]
              lowered == [T.state EXCEPT !.needs_escalation = FALSE]
          IN  N # T =>
                  /\ N.pc = "escalate" => T.pc = "score_confidence"
                  /\ T.pc = "score_confidence" =>
                         /\ N.pc = "escalate" <=> Len(Last(T.generated)) < 70
                         /\ N.state.needs_escalation <=> Len(Last(T.generated)) < 70
                         /\ score_confidence_node(lowered) = score_confidence_node(T.state)
                  /\ T.pc = "route" => has_custom_handler(route_node(lowered)) = N.pc
                  /\ (T.pc = "check_requirements" /\ N.state.missing_requirements = <<>>) =>
                         N.pc = "route" /\ N.escalations = 0
                  /\ N.escalations > T.escalations =>
                         \/ T.pc = "escalate"
                         \/ /\ T.pc = "check_requirements"
                            /\ AttemptsAt(N.state.requirement_attempts, KeyOf(N.state.category)) > 2
      ]_vars

\* a turn that found the flag raised by the turn before was answered by a
\* handler and has returned without any escalation, the flag still raised
C34_Witness ==
    \E t \in Slots :
        LET T == turns[t] IN
        /\ T.pc = "done"
        /\ T.before # <<>>
        /\ T.state.needs_escalation
        /\ T.escalations = 0
        /\ T.handled # <<>>
        /\ ~HandlerRaised(T)
        /\ Last(T.path) = "execute_handler"

\* C35: with categories declared, a turn classified "default" goes from classify
\* straight to response generation and confidence scoring: neither the
\* requirement check nor the route node runs and no handler is invoked, also
\* when one is registered under "default"; a handler is invoked only after
\* classify, check_requirements and route of the same turn, for a category other
\* than "default" that the classify node of the turn has set, whatever category
\* the turn found in the stored state
C35_DefaultSkipsRouting ==
    \A t \in Slots :
        LET T == turns[t] IN
        /\ (categories # <<>> /\ InSeq("classify", T.path)
                /\ T.state.category \in {"default", "", None}) =>
               /\ IsPrefix(T.path, <<"classify", "generate_response", "score_confidence", "escalate">>)
               /\ T.pc \in {"generate_response", "score_confidence", "escalate", "end", "done"}
               /\ T.handled = <<>>
               /\ Ended(T) => T.generated # <<>> /\ T.state.confidence = Len(T.generated[1])
        /\ (T.handled # <<>> \/ T.pc = "execute_handler") =>
               /\ SubSeq(T.path, 1, 3) = <<"classify", "check_requirements", "route">>
               /\ T.state.category \notin {"default", "", None}
               /\ T.state.category \in Range(categories)
               /\ T.generated = <<>>
        /\ T.pc = "classify" =>
               \A stale \in Range(categories) \cup {"default", None}, isNew \in BOOLEAN,
                  category \in Range(categories) \cup {"default"} :
                   /\ classify_node([T.state EXCEPT !.category = stale], isNew, category)
                          = classify_node(T.state, isNew, category)
                   /\ classify_node(T.state, isNew, category).category = category

\* with categories declared and a handler registered under "default", a turn
\* classified "default" has kept its generated response and no handler ran
C35_Witness ==
    \E t \in Slots :
        LET T == turns[t] IN
        /\ categories # <<>>
        /\ "default" \in handlers
        /\ T.pc = "done"
        /\ T.state.category = "default"
        /\ T.path = <<"classify", "generate_response", "score_confidence">>
        /\ T.handled = <<>>
        /\ T.result.text = T.generated[1]

====
